---------------------------- MODULE Spec2Model ----------------------------
(***************************************************************************)
(* A model of the USPTO publication extractor (src/unnamed/part_001) and   *)
(* of the grant extractor's insert (src/grant_extractor.go).               *)
(*                                                                         *)
(* Text is a sequence of tokens: "" is << >>, "T1" is <<"T1">>, and the    *)
(* combined description "CLAIMS:\nc1\n\nDESCRIPTION:\n[0001] x" is         *)
(* <<"CLAIMS:", "\n", "c1", "\n\n", "DESCRIPTION:", "\n", "[0001] x">>.    *)
(* A nullable SQL value (or a nil-able Go value) is a sequence of length   *)
(* at most one: NULL is << >> and the value v is <<v>>.                    *)
(*                                                                         *)
(* The bytes the parsers read are kept as runs: a text is a sequence of    *)
(* [c, n], the character c repeated n times, so that a title of 501 bytes  *)
(* is <<[c |-> "a", n |-> 501]>>.                                          *)
(***************************************************************************)
EXTENDS Integers, Sequences, FiniteSets, TLC

VARIABLES
    cfg,        \* the configuration of the running process (Config)
    store,      \* table patent_data_unified: a set of rows
    grants,     \* table patent_grants: a set of rows
    tx,         \* the inserter's call of insertPatents: its batch, position and transaction
    firstSeen,  \* history: per pub_number and column, the first non-blank value committed
    firstGrant, \* history: per grant_number, the first row whose INSERT succeeded
    grantTitle, \* history: per grant_number, the first non-blank title whose INSERT succeeded
    everForced, \* history: some committed UPSERT ran with ForceOverwrite
    fs,         \* the files under FilesRoot: a set of [dir, name, id], one per path
    now,        \* the last value read from the clock (time.Now().Unix())
    processedLog,       \* the lines of the file cfg.ProcessedLog
    processedArchives,  \* Extractor.processedArchives: the paths mapped to true
    archives,   \* Run's local archives: what getArchives returned
    sent,       \* how many of archives the sending goroutine has put on workChan
    workChan,   \* Extractor.workChan: the buffered paths
    workClosed, \* workChan has been closed
    resultChan, \* Extractor.resultChan: the buffered batches
    resultClosed,       \* resultChan has been closed
    wk,         \* per worker: its position in the loop body and its locals
    insDone,    \* the inserter goroutine has returned
    phase,      \* where the process is: "new", "running", "done" or "crashed"
    stats,      \* Extractor.stats: the four counters
    run,        \* how many times the process has been started
    faults,     \* how many calls of the operating system or the database have failed
    hist,       \* history of the runs, read by the properties only
    inp,        \* the archive or the document given to the parsers
    out         \* what the parsers returned for inp

sinkVars == <<store, grants, tx, firstSeen, firstGrant, grantTitle, everForced>>

pipeVars == <<fs, now, processedLog, processedArchives, archives, sent, workChan,
              workClosed, resultChan, resultClosed, wk, insDone, phase, stats, run,
              faults, hist>>

parseVars == <<inp, out>>

vars == <<cfg, sinkVars, pipeVars, parseVars>>

-----------------------------------------------------------------------------
(* Bounds of the model *)

\* distinct non-blank values a column takes in the sampled records
MaxVal == 2
\* records in one sampled batch
MaxBatch == 1
\* worker goroutines (cfg.Workers)
NumWorkers == 2
\* capacity of workChan and of resultChan
ChanCap == 1
\* the clock runs from 1 to MaxClock
MaxClock == 2
\* starts of the process
MaxRuns == 2
\* failed calls (rename, open of the log, Begin, Exec, Commit) in one behaviour
\* of the pipeline
MaxFaults == 1
\* tagged paragraphs in one description block
MaxParas == 3

-----------------------------------------------------------------------------
(* Values *)

NULL == << >>
Some(v) == <<v>>
IsNull(x) == x = << >>

EmptyText == << >>
Space == " "
WhiteTokens == {" ", "\n", "\n\n", "\t"}

RECURSIVE StripLeft(_, _)
StripLeft(s, cut) ==
    IF s = << >> THEN s
    ELSE IF Head(s) \in cut THEN StripLeft(Tail(s), cut) ELSE s

RECURSIVE StripRight(_, _)
StripRight(s, cut) ==
    IF s = << >> THEN s
    ELSE IF s[Len(s)] \in cut THEN StripRight(SubSeq(s, 1, Len(s) - 1), cut) ELSE s

\* PostgreSQL btrim(text): removes spaces (only spaces) from both ends
Btrim(s) == StripRight(StripLeft(s, {Space}), {Space})

\* Go strings.TrimSpace: removes all leading and trailing white space
TrimSpace(s) == StripRight(StripLeft(s, WhiteTokens), WhiteTokens)

\* Go strings.Index on token sequences: the 0-based position of the first
\* occurrence of m in s, or -1
IndexOf(s, m) ==
    LET hits == { i \in 0..(Len(s) - Len(m)) : SubSeq(s, i + 1, i + Len(m)) = m }
    IN  IF hits = {} THEN -1 ELSE CHOOSE i \in hits : \A j \in hits : i <= j

HasPrefix(s, p) == Len(s) >= Len(p) /\ SubSeq(s, 1, Len(p)) = p

\* s[from:] with a 0-based offset
SliceFrom(s, from) == SubSeq(s, from + 1, Len(s))

RECURSIVE Flatten(_)
Flatten(ss) == IF ss = << >> THEN << >> ELSE Head(ss) \o Flatten(Tail(ss))

Min(a, b) == IF a < b THEN a ELSE b

-----------------------------------------------------------------------------
(* parseXML: the combined description of a record *)

ClaimsHeader == <<"CLAIMS:", "\n">>
DescHeader == <<"DESCRIPTION:", "\n">>
Marker == <<"\n\n", "DESCRIPTION:">>
MaxClaimsShown == 10

BuildDescription(claims, descText) ==
    LET shown == SubSeq(claims, 1, Min(Len(claims), MaxClaimsShown))
        head  == IF Len(claims) > 0
                 THEN ClaimsHeader \o Flatten([i \in 1..Len(shown) |-> shown[i] \o <<"\n\n">>])
                 ELSE << >>
    IN  IF descText # << >>
        THEN (IF head # << >> THEN head \o DescHeader ELSE head) \o descText
        ELSE head

-----------------------------------------------------------------------------
(* insertPatents: the arguments of stmt.Exec *)

RECURSIVE JoinClaims(_, _)
JoinClaims(claims, acc) ==
    IF claims = << >> THEN acc
    ELSE LET ct == TrimSpace(Head(claims))
         IN  IF ct = << >> THEN JoinClaims(Tail(claims), acc)
             ELSE JoinClaims(Tail(claims),
                             (IF Len(acc) > 0 THEN acc \o <<"\n\n">> ELSE acc) \o ct)

ClaimsTextOf(p) ==
    IF Len(p.Claims) > 0
    THEN JoinClaims(SubSeq(p.Claims, 1, Min(Len(p.Claims), MaxClaimsShown)), << >>)
    ELSE IF HasPrefix(p.DescriptionText, <<"CLAIMS:">>)
    THEN LET idx == IndexOf(p.DescriptionText, Marker)
         IN  IF idx > 0
             THEN TrimSpace(SubSeq(p.DescriptionText, 2, idx))
             ELSE TrimSpace(SliceFrom(p.DescriptionText, 1))
    ELSE << >>

DescriptionBodyOf(p) ==
    LET idx == IndexOf(p.DescriptionText, Marker)
    IN  IF (Len(p.Claims) > 0 \/ HasPrefix(p.DescriptionText, <<"CLAIMS:">>)) /\ idx > 0
        THEN SliceFrom(p.DescriptionText, idx + Len(Marker))
        ELSE p.DescriptionText

\* the row proposed for insertion (EXCLUDED): Go strings and ints are never
\* NULL, nil pointers and empty JSON are
ExecArgs(p) ==
    [ pub_number         |-> p.PubNumber,
      title              |-> Some(p.Title),
      abstract_text      |-> Some(p.AbstractText),
      description_text   |-> Some(p.DescriptionText),
      claims_text        |-> Some(ClaimsTextOf(p)),
      description_body   |-> Some(DescriptionBodyOf(p)),
      filing_date        |-> p.FilingDate,
      pub_date           |-> p.PubDate,
      inventors          |-> IF Len(p.Inventors) > 0 THEN Some(p.Inventors) ELSE NULL,
      assignees          |-> IF Len(p.Assignees) > 0 THEN Some(p.Assignees) ELSE NULL,
      raw_xml_path       |-> Some(p.RawXMLPath),
      year               |-> Some(p.Year),
      application_number |-> Some(p.ApplicationNumber) ]

-----------------------------------------------------------------------------
(* insertPatents: the UPSERT statement *)

\* x IS NULL OR btrim(x) = ''
SqlBlankText(x) == IsNull(x) \/ Btrim(x[1]) = EmptyText

\* (mutant) the new value always wins
FillTextOverwrite(old, new) == new
FillText(old, new) == IF SqlBlankText(old) THEN new ELSE old
\* (mutant) a stored date gives way to the new one
FillNullOverwrite(old, new) == new
FillNull(old, new) == IF IsNull(old) THEN new ELSE old
Coalesce(old, new) == IF ~IsNull(old) THEN old ELSE new

\* updateDesc: the three description columns, fill-only or forced
\* (mutant) the -force flag is ignored
UpdateDescFillOnly(old, ex, force) == FillText(old, ex)
UpdateDesc(old, ex, force) == IF force THEN ex ELSE FillText(old, ex)

\* ON CONFLICT (pub_number) DO UPDATE SET ...
ConflictUpdate(old, ex, force) ==
    [ pub_number         |-> old.pub_number,
      title              |-> FillText(old.title, ex.title),
      abstract_text      |-> FillText(old.abstract_text, ex.abstract_text),
      description_text   |-> UpdateDesc(old.description_text, ex.description_text, force),
      claims_text        |-> UpdateDesc(old.claims_text, ex.claims_text, force),
      description_body   |-> UpdateDesc(old.description_body, ex.description_body, force),
      inventors          |-> FillNull(old.inventors, ex.inventors),
      assignees          |-> FillNull(old.assignees, ex.assignees),
      raw_xml_path       |-> Coalesce(old.raw_xml_path, ex.raw_xml_path),
      filing_date        |-> FillNull(old.filing_date, ex.filing_date),
      pub_date           |-> FillNull(old.pub_date, ex.pub_date),
      year               |-> FillNull(old.year, ex.year),
      application_number |-> FillText(old.application_number, ex.application_number) ]

\* INSERT ... ON CONFLICT (pub_number) DO UPDATE on the table st
\* (mutant) a plain INSERT, without the ON CONFLICT clause
UpsertAppend(st, ex, force) == st \cup {ex}
Upsert(st, ex, force) ==
    LET hit == { r \in st : r.pub_number = ex.pub_number }
    IN  IF hit = {} THEN st \cup {ex}
        ELSE (st \ hit) \cup { ConflictUpdate(r, ex, force) : r \in hit }

-----------------------------------------------------------------------------
(* GrantExtractor.insertBatch: INSERT ... ON CONFLICT (grant_number) DO NOTHING *)

GrantArgs(g) ==
    [ grant_number       |-> g.GrantNumber,
      kind               |-> Some(g.Kind),
      title              |-> Some(g.Title),
      grant_date         |-> g.GrantDate,
      application_number |-> Some(g.ApplicationNumber),
      application_date   |-> g.ApplicationDate,
      abstract_text      |-> Some(g.AbstractText),
      year               |-> Some(g.Year),
      raw_xml_source     |-> Some(g.RawXMLSource) ]

GrantInsertRow(tbl, ex) ==
    IF \E r \in tbl : r.grant_number = ex.grant_number THEN tbl ELSE tbl \cup {ex}

-----------------------------------------------------------------------------
(* Columns, and what the specification calls a blank value *)

TextCols == {"title", "abstract_text", "description_text", "claims_text",
             "description_body", "application_number"}
JsonCols == {"inventors", "assignees"}
DateCols == {"filing_date", "pub_date"}
DescCols == {"description_text", "claims_text", "description_body"}
NonKeyCols == TextCols \cup JsonCols \cup DateCols \cup {"raw_xml_path", "year"}

UnknownYear == 0

\* null, empty or whitespace-only text, or an unknown date or year
Blank(c, x) ==
    \/ IsNull(x)
    \/ c \in TextCols \cup JsonCols \cup {"raw_xml_path"} /\ TrimSpace(x[1]) = EmptyText
    \/ c = "year" /\ x[1] = UnknownYear

RowOf(st, key) == { r \in st : r.pub_number = key }

-----------------------------------------------------------------------------
(* The records the sink is given *)

PubIds == {"20030050000", "20030046754"}
GrantIds == {"11000001", "11000002"}

\* the year the alternate parser reads in the publication number
PubNumberYear(pub) == 2003

Text(tag, k) == IF k = 0 THEN EmptyText ELSE <<tag, ToString(k)>>
DateOf(k) == IF k = 0 THEN NULL ELSE Some((2002 + k) * 10000 + 313)
YearOfDate(d) == d \div 10000

\* a record as parseXML or parseAlternateXML leaves it: t selects the text
\* fields, n the dates and the JSON fields, c the claims, d the description
\* block, y the year found when there is no publication date
MkPatent(pub, t, n, c, d, y) ==
    LET claims == IF c = 0 THEN << >> ELSE << Text("claim", c) >>
    IN  [ PubNumber         |-> pub,
          Title             |-> Text("title", t),
          AbstractText      |-> Text("abstract", t),
          DescriptionText   |-> BuildDescription(claims, Text("[0001] para", d)),
          Claims            |-> claims,
          FilingDate        |-> DateOf(n),
          PubDate           |-> DateOf(n),
          Year              |-> IF n = 0 THEN y ELSE YearOfDate(DateOf(n)[1]),
          ApplicationNumber |-> Text("app", t),
          Inventors         |-> Text("inventors", n),
          Assignees         |-> Text("assignees", n),
          RawXMLPath        |-> <<"archive", ToString(n), "/", "doc.xml">> ]

\* the sampled records of one publication: k selects the text fields, the
\* dates and the JSON fields together, c the claims and d the description
SamplePatents(pubs) ==
    UNION { { MkPatent(pub, k, k, c, d, y) :
                k \in 0..MaxVal, c \in 0..MaxVal, d \in 0..MaxVal,
                y \in {UnknownYear, PubNumberYear(pub)} } : pub \in pubs }

\* records that differ in one selector only
PlainPatents(pubs) ==
    { MkPatent(pub, k, k, k, k, UnknownYear) : pub \in pubs, k \in 0..MaxVal }

Batches(pool) == UNION { [1..len -> pool] : len \in 0..MaxBatch }

\* the batches of the two sink specifications
SinkBatches == Batches(SamplePatents({"20030050000"}))
KeysBatches == Batches(PlainPatents(PubIds))

SampleGrants ==
    { [ GrantNumber       |-> g,
        Kind              |-> <<"B2">>,
        Title             |-> Text("title", t),
        GrantDate         |-> DateOf(t),
        ApplicationNumber |-> Text("app", t),
        ApplicationDate   |-> DateOf(t),
        AbstractText      |-> Text("abstract", t),
        Year              |-> IF t = 0 THEN UnknownYear ELSE YearOfDate(DateOf(t)[1]),
        RawXMLSource      |-> <<"ipg250107.zip", "/", "ipg250107.xml">> ] :
        g \in GrantIds, t \in 0..MaxVal }

-----------------------------------------------------------------------------
(* File names, paths and the files of the model *)

\* A file name is a sequence of tokens, "I20030313.zip" being
\* <<"I20030313", ".zip">>; a token that starts with a dot is one of these
DotTokens == {".zip", ".ZIP", ".tar", ".gz", ".tgz", "."}

ToLowerTok(t) == CASE t = ".ZIP" -> ".zip" [] t = "SUPP" -> "supp" [] OTHER -> t
ToUpperTok(t) ==
    CASE t = ".zip" -> ".ZIP" [] t = ".tar" -> ".TAR" [] t = ".gz" -> ".GZ"
      [] t = ".tgz" -> ".TGZ" [] t = "supp" -> "SUPP" [] t = ".xml" -> ".XML"
      [] OTHER -> t
ToLower(name) == [i \in DOMAIN name |-> ToLowerTok(name[i])]
ToUpper(name) == [i \in DOMAIN name |-> ToUpperTok(name[i])]

HasSuffix(s, suf) == Len(s) >= Len(suf) /\ SubSeq(s, Len(s) - Len(suf) + 1, Len(s)) = suf
Contains(s, t) == \E i \in DOMAIN s : s[i] = t
\* filepath.Ext(name) == ""
NoExt(name) == \A i \in DOMAIN name : name[i] \notin DotTokens

\* the names of the model, in byte order (all of them sort before "NewFiles")
NamesSorted ==
    << <<"20040101", ".zip">>, <<"I20030313", ".zip">>, <<"I20030320", ".zip">>,
       <<"I20030327", ".tgz">>, <<"I20030327", "SUPP", ".ZIP">>,
       <<"I20040108", ".zip">>, <<"IPA", ".zip">> >>
NameRank(name) == CHOOSE i \in DOMAIN NamesSorted : NamesSorted[i] = name

Root == "root"
NewFiles == "NewFiles"
\* a directory under NewFiles; its name sorts after the names of the files
NewSub == "NewFiles/sub"
Path(dir, name) == [dir |-> dir, name |-> name]
\* filepath.Join(cfg.FilesRoot, fmt.Sprintf("%s.%d", base, t))
Stamped(base, t) == base \o <<".", ToString(t)>>

\* The content of a file: what opening it as an archive gives
Format(id) == CASE id = "good1" -> "zip" [] id = "good2" -> "zip" [] OTHER -> "junk"
SniffsZip(id) == Format(id) = "zip"
SniffsTar(id) == Format(id) = "tar"
\* file size in MB, and cfg.MinArchiveSizeMB
SizeMB(id) == 50
MinArchiveSizeMB == 1

\* the ids of the files at a path: none, or one
At(files, p) == { f.id : f \in { g \in files : g.dir = p.dir /\ g.name = p.name } }
Exists(files, p) == At(files, p) # {}
IdAt(files, p) == CHOOSE id \in At(files, p) : TRUE

\* (mutant) a rename that leaves the source in place
RenameCopy(files, src, dest) ==
    files \cup { [dir |-> dest.dir, name |-> dest.name, id |-> IdAt(files, src)] }
\* os.Rename(src, dest) when it succeeds: dest is replaced if it exists
Rename(files, src, dest) ==
    { f \in files : ~(f.dir = src.dir /\ f.name = src.name)
                    /\ ~(f.dir = dest.dir /\ f.name = dest.name) }
        \cup { [dir |-> dest.dir, name |-> dest.name, id |-> IdAt(files, src)] }

-----------------------------------------------------------------------------
(* Discovery: isCandidateArchive and getArchives *)

isCandidateArchive(name, id) ==
    LET lower == ToLower(name)
        upper == ToUpper(name)
    IN  \/ HasSuffix(lower, <<".zip">>) \/ HasSuffix(lower, <<".tar">>)
        \/ HasSuffix(lower, <<".tgz">>) \/ HasSuffix(lower, <<".tar", ".gz">>)
        \/ (Contains(upper, "SUPP") /\ HasSuffix(upper, <<".ZIP">>))
        \/ /\ NoExt(name)
           /\ SizeMB(id) >= MinArchiveSizeMB
           /\ (SniffsZip(id) \/ SniffsTar(id))

\* the five patterns of the staging scan, as what a name must satisfy
GlobPatterns == <<"*.ZIP", "*.zip", "*.tar", "*.tar.gz", "*SUPP*.ZIP">>
GlobMatch(pattern, name) ==
    CASE pattern = "*.ZIP" -> HasSuffix(name, <<".ZIP">>)
      [] pattern = "*.zip" -> HasSuffix(name, <<".zip">>)
      [] pattern = "*.tar" -> HasSuffix(name, <<".tar">>)
      [] pattern = "*.tar.gz" -> HasSuffix(name, <<".tar", ".gz">>)
      [] pattern = "*SUPP*.ZIP" ->
            /\ HasSuffix(name, <<".ZIP">>)
            /\ \E i \in 1..(Len(name) - 1) : name[i] = "SUPP"

\* the entries of a directory that has only files of the model's names, sorted
DirList(files, dir) ==
    SelectSeq([i \in DOMAIN NamesSorted |-> Path(dir, NamesSorted[i])],
              LAMBDA q : Exists(files, q))
\* filepath.Glob(pattern) under NewFiles
Glob(files, pattern) ==
    SelectSeq(DirList(files, NewFiles), LAMBDA q : GlobMatch(pattern, q.name))
\* filepath.WalkDir(cfg.FilesRoot): the files in lexical order, directories descended
WalkFiles(files) ==
    DirList(files, Root) \o DirList(files, NewFiles) \o DirList(files, NewSub)

\* the matches of all patterns, in the order the two loops visit them
StagingMatches(files) ==
    Flatten([i \in DOMAIN GlobPatterns |-> Glob(files, GlobPatterns[i])])

\* isProcessed(archive): the path itself is a key of the map
isProcessed(processed, p) == p \in processed

\* strings.HasPrefix(ap, newFilesDir): the path lies under NewFiles
Staged(p) == p.dir \in {NewFiles, NewSub}
\* moveToOriginals(p) with the clock at t: a path under NewFiles is renamed
\* to FilesRoot/base, or to FilesRoot/base.t when that exists; ok tells
\* whether os.Rename succeeds, which it never does without its source
MoveDest(files, p, t) ==
    IF Exists(files, Path(Root, p.name))
    THEN Path(Root, Stamped(p.name, t))
    ELSE Path(Root, p.name)
moveToOriginals(files, p, t, ok) ==
    IF Staged(p) /\ Exists(files, p) /\ ok
    THEN Rename(files, p, MoveDest(files, p, t))
    ELSE files

\* the loop of the staging scan over the matches: a processed match is moved
\* (failing for the paths of stuck) and skipped, another is appended
RECURSIVE StagingScan(_, _, _, _, _, _)
StagingScan(matches, files, acc, processed, t, stuck) ==
    IF matches = << >> THEN [fs |-> files, archives |-> acc]
    ELSE LET m == Head(matches)
         IN  IF ~cfg.ReprocessAll /\ isProcessed(processed, m)
             THEN StagingScan(Tail(matches), moveToOriginals(files, m, t, m \notin stuck),
                              acc, processed, t, stuck)
             ELSE StagingScan(Tail(matches), files, Append(acc, m), processed, t, stuck)

\* the walk function and the top-level listing: candidates not yet processed
Unprocessed(paths, files, processed) ==
    SelectSeq(paths, LAMBDA q : /\ isCandidateArchive(q.name, IdAt(files, q))
                                /\ (cfg.ReprocessAll \/ ~isProcessed(processed, q)))

\* yearOf(base) of the priority window: the year a name starts with, or -1
yearOf(name) ==
    IF name = << >> THEN -1
    ELSE CASE Head(name) \in {"I20030313", "I20030320", "I20030327"} -> 2003
           [] Head(name) \in {"I20040108", "20040101"} -> 2004
           [] OTHER -> -1
InWindow(q) ==
    yearOf(q.name) >= cfg.PriorityMinYear /\ yearOf(q.name) <= cfg.PriorityMaxYear
\* the orders sort.Slice may leave a list in: by base name, ascending or not
SortedByBase(list, descending) ==
    { perm \in [DOMAIN list -> DOMAIN list] :
        /\ \A i, j \in DOMAIN list : perm[i] = perm[j] => i = j
        /\ \A i, j \in DOMAIN list : i < j =>
              IF descending
              THEN NameRank(list[perm[i]].name) >= NameRank(list[perm[j]].name)
              ELSE NameRank(list[perm[i]].name) <= NameRank(list[perm[j]].name) }
Permuted(list, perm) == [i \in DOMAIN list |-> list[perm[i]]]
\* (mutant) the priority window is not applied
Unprioritised(list) == { list }
\* the lists the priority window may turn a list into
Prioritised(list) ==
    IF cfg.PriorityMinYear > 0 /\ cfg.PriorityMaxYear >= cfg.PriorityMinYear
    THEN LET pri == SelectSeq(list, InWindow)
             rest == SelectSeq(list, LAMBDA q : ~InWindow(q))
         IN  { Permuted(pri, a) \o Permuted(rest, b) :
                 a \in SortedByBase(pri, TRUE), b \in SortedByBase(rest, FALSE) }
    ELSE { list }

\* getArchives before the priority window: the files it leaves and its list
Scanned(files, processed, t, stuck) ==
    IF cfg.ScanNewOnly
    THEN StagingScan(StagingMatches(files), files, << >>, processed, t, stuck)
    ELSE [fs |-> files,
          archives |-> IF cfg.Recursive
                       THEN Unprocessed(WalkFiles(files), files, processed)
                       ELSE Unprocessed(DirList(files, Root), files, processed)]

-----------------------------------------------------------------------------
(* Extraction *)

\* the worker's choice of extractor for a path
ArchiveKind(files, p) ==
    LET lower == ToLower(p.name)
        zip == Exists(files, p) /\ SniffsZip(IdAt(files, p))
        tar == Exists(files, p) /\ SniffsTar(IdAt(files, p))
    IN  IF HasSuffix(lower, <<".zip">>) \/ zip THEN "zip"
        ELSE IF Contains(lower, ".tar") \/ tar THEN "tar"
        ELSE "unknown"

\* the records in the files of the model
Records(id) ==
    CASE id = "good1" -> << MkPatent("20030050000", 1, 1, 1, 1, UnknownYear) >>
      [] id = "good2" -> << MkPatent("20030050000", 2, 0, 2, 0, UnknownYear) >>
      [] OTHER -> << >>

\* extractFromZIP or extractFromTAR on a path: an error when the file cannot
\* be opened as the archive its kind says, otherwise its records
Extracted(files, p) ==
    LET kind == ArchiveKind(files, p)
    IN  IF kind # "unknown" /\ Exists(files, p) /\ Format(IdAt(files, p)) = kind
        THEN [err |-> FALSE, patents |-> Records(IdAt(files, p))]
        ELSE [err |-> TRUE, patents |-> << >>]

-----------------------------------------------------------------------------
(* insertPatents, one step per database call *)

NoTx == [state |-> "idle"]

\* history: the first non-blank value of each column, updated by one UPSERT
NoteFirst(first, ex) ==
    [first EXCEPT ![ex.pub_number] =
        [c \in NonKeyCols |-> IF IsNull(@[c]) /\ ~Blank(c, ex[c]) THEN ex[c] ELSE @[c]]]

\* insertPatents(batch) is entered: an empty batch returns 0 at once, a failed
\* Begin or Prepare (not ok) returns 0, otherwise the transaction is open
InsBegin(batch, src, ok) ==
    /\ tx.state = "idle"
    /\ \/ /\ Len(batch) = 0 /\ ok
          /\ tx' = [state |-> "returned", result |-> 0, src |-> src, clean |-> TRUE,
                    commit |-> "none"]
       \/ /\ Len(batch) > 0 /\ ~ok
          /\ tx' = [state |-> "returned", result |-> 0, src |-> src, clean |-> FALSE,
                    commit |-> "none"]
       \/ /\ Len(batch) > 0 /\ ok
          /\ tx' = [state |-> "open", patents |-> batch, i |-> 1, work |-> store,
                    first |-> firstSeen, inserted |-> 0, src |-> src,
                    force |-> cfg.ForceOverwrite, clean |-> TRUE,
                    aborted |-> FALSE, rejected |-> {}]
    /\ UNCHANGED <<store, grants, firstSeen, firstGrant, grantTitle, everForced>>

\* the server has failed a statement of the open transaction: PostgreSQL
\* refuses every later statement of that transaction and cannot commit it
Aborted == tx.state = "open" /\ tx.aborted

\* stmt.Exec for the next record: it succeeds, or fails and the loop
\* continues. The error comes from the driver before the statement is sent,
\* or from the server, which then aborts the transaction (atServer); in an
\* aborted transaction the statement can only fail.
InsExec(ok, atServer) ==
    /\ tx.state = "open"
    /\ tx.i <= Len(tx.patents)
    /\ tx.aborted => ~ok
    /\ LET ex == ExecArgs(tx.patents[tx.i])
       IN  IF ok
           THEN tx' = [tx EXCEPT !.i = @ + 1,
                                 !.work = Upsert(@, ex, tx.force),
                                 !.first = NoteFirst(@, ex),
                                 !.inserted = @ + 1]
           ELSE tx' = [tx EXCEPT !.i = @ + 1, !.clean = FALSE,
                                 !.aborted = @ \/ atServer,
                                 !.rejected = IF tx.aborted THEN @ ELSE @ \cup {tx.i}]
    /\ UNCHANGED <<store, grants, firstSeen, firstGrant, grantTitle, everForced>>

\* tx.Commit: on success the transaction's rows become the table and the count
\* of executed records is returned; on failure nothing is stored and 0 is
\* returned. The commit of an aborted transaction is a rollback and an error.
InsCommit(ok) ==
    /\ tx.state = "open"
    /\ tx.i > Len(tx.patents)
    /\ tx.aborted => ~ok
    /\ \/ /\ ok
          /\ store' = tx.work
          /\ firstSeen' = tx.first
          /\ everForced' = (everForced \/ tx.force)
          /\ tx' = [state |-> "returned", result |-> tx.inserted, src |-> tx.src,
                    clean |-> tx.clean, commit |-> "ok"]
       \/ /\ ~ok
          /\ tx' = [state |-> "returned", result |-> 0, src |-> tx.src, clean |-> FALSE,
                    commit |-> IF tx.aborted THEN "aborted" ELSE "failed"]
          /\ UNCHANGED <<store, firstSeen, everForced>>
    /\ UNCHANGED <<grants, firstGrant, grantTitle>>

\* the INSERT of one grant when the database executes it
GrantStored(g) ==
    /\ grants' = GrantInsertRow(grants, GrantArgs(g))
    /\ firstGrant' = [firstGrant EXCEPT ![g.GrantNumber] =
                         IF IsNull(@) THEN Some(GrantArgs(g)) ELSE @]
    /\ grantTitle' = [grantTitle EXCEPT ![g.GrantNumber] =
                         IF IsNull(@) /\ ~Blank("title", Some(g.Title))
                         THEN Some(g.Title) ELSE @]
\* insertBatch of the grant extractor: one autocommitted INSERT of one grant,
\* which succeeds or returns an error
GrantExec(g) ==
    /\ \/ GrantStored(g)
       \/ UNCHANGED <<grants, firstGrant, grantTitle>>
    /\ UNCHANGED <<store, tx, firstSeen, everForced>>

-----------------------------------------------------------------------------
(* The process: configuration and the state a start leaves *)

\* the defaults: a recursive scan, fill-only, no priority window
DefaultConfig ==
    [ScanNewOnly |-> FALSE, Recursive |-> TRUE, ReprocessAll |-> FALSE,
     ForceOverwrite |-> FALSE, PriorityMinYear |-> 0, PriorityMaxYear |-> 0]

\* the configurations a run of the model starts with: the defaults, a
\* top-level scan, a staging scan, and a recursive scan in reprocess mode
Configs ==
    { DefaultConfig,
      [DefaultConfig EXCEPT !.Recursive = FALSE],
      [DefaultConfig EXCEPT !.ScanNewOnly = TRUE],
      [DefaultConfig EXCEPT !.ReprocessAll = TRUE] }

File(dir, name, id) == [dir |-> dir, name |-> name, id |-> id]
\* the files the first run finds: a staged pair of which one is corrupt, a
\* staged archive whose name is taken in FilesRoot, two archives in place of
\* which one has a type the workers do not know
Layouts ==
    { { File(NewFiles, NamesSorted[2], "good1"), File(NewFiles, NamesSorted[3], "corrupt") },
      { File(NewFiles, NamesSorted[2], "good1"), File(Root, NamesSorted[2], "good2") },
      { File(Root, NamesSorted[2], "good1"), File(Root, NamesSorted[4], "gzip") } }

Workers == 1..NumWorkers
NoPath == Path("", << >>)
Resting(pc) == [pc |-> pc, path |-> NoPath, id |-> "", patents |-> << >>]
ZeroStats == [Errors |-> 0, PatentsExtracted |-> 0, ArchivesProcessed |-> 0,
              PatentsInserted |-> 0]

\* the history of a process that has just been constructed
NewHist(before) ==
    [loaded |-> before.loaded, loadedIds |-> before.loadedIds,
     found |-> {}, failed |-> {}, parsed |-> {}, marked |-> {},
     finished |-> {}, stuck |-> {},
     pending |-> before.pending, logged |-> before.logged,
     ingested |-> before.ingested, last |-> before.last]
NoRun == [crashed |-> FALSE, cfg |-> DefaultConfig, found |-> {}, marked |-> {}]
FirstHist ==
    NewHist([loaded |-> {}, loadedIds |-> {}, pending |-> {}, logged |-> {},
             ingested |-> {}, last |-> NoRun])

\* no document has been given to the parsers, and nothing was returned
NoInput == [kind |-> "none"]
NoOutput == [op |-> "none"]

\* the specifications that give the parsers nothing
NoParse == inp = NoInput /\ out = NoOutput

\* the empty tables, and the inserter before its first batch
SinkStart ==
    /\ store = {}
    /\ grants = {}
    /\ tx = NoTx
    /\ firstSeen = [p \in PubIds |-> [c \in NonKeyCols |-> NULL]]
    /\ firstGrant = [g \in GrantIds |-> NULL]
    /\ grantTitle = [g \in GrantIds |-> NULL]
    /\ everForced = FALSE

\* what NewExtractor leaves apart from the processed set
Constructed ==
    /\ archives = << >>
    /\ sent = 0
    /\ workChan = << >>
    /\ workClosed = FALSE
    /\ resultChan = << >>
    /\ resultClosed = FALSE
    /\ wk = [w \in Workers |-> Resting("off")]
    /\ insDone = FALSE
    /\ stats = ZeroStats
    /\ phase = "new"

\* the process state of the specifications that have no process
PipeStart ==
    /\ Constructed
    /\ fs = {}
    /\ now = 1
    /\ processedLog = {}
    /\ processedArchives = {}
    /\ run = 1
    /\ faults = 0
    /\ hist = FirstHist

Init ==
    /\ cfg \in Configs
    /\ SinkStart
    /\ Constructed
    /\ fs \in Layouts
    /\ now = 1
    /\ processedLog = {}
    /\ processedArchives = {}
    /\ run = 1
    /\ faults = 0
    /\ hist = FirstHist
    /\ NoParse

-----------------------------------------------------------------------------
(* The sink alone: any batches, in any order, under either merge mode *)

SinkInit ==
    /\ cfg = DefaultConfig
    /\ SinkStart
    /\ PipeStart
    /\ NoParse

SinkBegin ==
    /\ \E batch \in SinkBatches, ok \in BOOLEAN : InsBegin(batch, "sample", ok)
    /\ UNCHANGED <<cfg, parseVars, pipeVars>>

SinkExec ==
    /\ \E ok \in BOOLEAN, atServer \in BOOLEAN : InsExec(ok, atServer)
    /\ UNCHANGED <<cfg, parseVars, pipeVars>>

SinkCommit == (\E ok \in BOOLEAN : InsCommit(ok)) /\ UNCHANGED <<cfg, parseVars, pipeVars>>

\* the inserter takes the count and is ready for the next batch
SinkReturn ==
    /\ tx.state = "returned"
    /\ tx' = NoTx
    /\ UNCHANGED <<cfg, parseVars, store, grants, firstSeen, firstGrant, grantTitle, everForced>>
    /\ UNCHANGED pipeVars

\* a later run of the extractor with the other setting of -force
SinkRestart ==
    /\ tx.state = "idle"
    /\ cfg' = [cfg EXCEPT !.ForceOverwrite = ~@]
    /\ UNCHANGED <<sinkVars, pipeVars, parseVars>>

SinkNext ==
    \/ SinkBegin
    \/ SinkExec
    \/ SinkCommit
    \/ SinkReturn
    \/ SinkRestart

SpecUpsert == SinkInit /\ [][SinkNext]_vars

-----------------------------------------------------------------------------
(* Both tables, several keys: publications through insertPatents, grants *)
(* through the grant workers' INSERTs, interleaved in any order          *)

KeysBegin ==
    /\ \E batch \in KeysBatches, ok \in BOOLEAN : InsBegin(batch, "sample", ok)
    /\ UNCHANGED <<cfg, parseVars, pipeVars>>

KeysGrant ==
    /\ \E g \in SampleGrants : GrantExec(g)
    /\ UNCHANGED <<cfg, parseVars, pipeVars>>

KeysInit ==
    /\ cfg \in { [DefaultConfig EXCEPT !.ForceOverwrite = f] : f \in BOOLEAN }
    /\ SinkStart
    /\ PipeStart
    /\ NoParse

KeysNext ==
    \/ KeysBegin
    \/ SinkExec
    \/ SinkCommit
    \/ SinkReturn
    \/ KeysGrant

SpecKeys == KeysInit /\ [][KeysNext]_vars

-----------------------------------------------------------------------------
(* One batch of several records: insertPatents over a batch in which any *)
(* Exec may fail, at the driver or at the server                         *)

\* the longest batch
MaxLong == 3

\* complete records, one per publication
BatchPool == { MkPatent(pub, 1, 1, 1, 1, UnknownYear) : pub \in PubIds }
LongBatches == UNION { [1..len -> BatchPool] : len \in 1..MaxLong }

BatchBegin ==
    /\ \E batch \in LongBatches, ok \in BOOLEAN : InsBegin(batch, "sample", ok)
    /\ UNCHANGED <<cfg, parseVars, pipeVars>>

BatchNext ==
    \/ BatchBegin
    \/ SinkExec
    \/ SinkCommit
    \/ SinkReturn

SpecBatch == SinkInit /\ [][BatchNext]_vars

-----------------------------------------------------------------------------
(* The publication pipeline: Run, the sender, the workers and the inserter *)

IdOf(files, p) == IF Exists(files, p) THEN IdAt(files, p) ELSE "none"
Ids(files, paths) == { IdOf(files, paths[i]) : i \in DOMAIN paths }
\* the clock when it is read
Clock == now..MaxClock
\* the outcomes a call may have: success, or failure while failures are left
Outcomes == IF faults < MaxFaults THEN BOOLEAN ELSE {TRUE}
Failed(ok) == IF ok THEN 0 ELSE 1

\* Run up to the start of the goroutines: getArchives, in which the staging
\* scan moves the processed files it meets, then the workers and the inserter
GetArchives ==
    /\ phase = "new"
    /\ LET met == { q \in processedArchives :
                      /\ cfg.ScanNewOnly /\ ~cfg.ReprocessAll
                      /\ q.dir = NewFiles /\ Exists(fs, q)
                      /\ \E i \in DOMAIN GlobPatterns : GlobMatch(GlobPatterns[i], q.name) }
       IN  \E t \in (IF met = {} THEN {now} ELSE Clock),
              stuck \in { st \in SUBSET met : faults + Cardinality(st) <= MaxFaults } :
             LET scan == Scanned(fs, processedArchives, t, stuck)
             IN  \E list \in Prioritised(scan.archives) :
                   /\ archives' = list
                   /\ fs' = scan.fs
                   /\ now' = t
                   /\ faults' = faults + Cardinality(stuck)
                   /\ hist' = [hist EXCEPT !.found = Ids(fs, list)]
    /\ wk' = [w \in Workers |-> Resting("recv")]
    /\ phase' = "running"
    /\ UNCHANGED <<cfg, parseVars, sinkVars, processedLog, processedArchives, sent, workChan,
                   workClosed, resultChan, resultClosed, insDone, stats, run>>

\* the sending goroutine puts the next archive on workChan
SendWork ==
    /\ phase = "running"
    /\ sent < Len(archives)
    /\ Len(workChan) < ChanCap
    /\ workChan' = Append(workChan, archives[sent + 1])
    /\ sent' = sent + 1
    /\ UNCHANGED <<cfg, parseVars, sinkVars, fs, now, processedLog, processedArchives, archives,
                   workClosed, resultChan, resultClosed, wk, insDone, phase, stats,
                   run, faults, hist>>

\* and closes it after the last
CloseWork ==
    /\ phase = "running"
    /\ sent = Len(archives)
    /\ ~workClosed
    /\ workClosed' = TRUE
    /\ UNCHANGED <<cfg, parseVars, sinkVars, fs, now, processedLog, processedArchives, archives,
                   sent, workChan, resultChan, resultClosed, wk, insDone, phase, stats,
                   run, faults, hist>>

\* the range over workChan ends
WorkerExit(w) ==
    /\ phase = "running"
    /\ wk[w].pc = "recv"
    /\ workChan = << >>
    /\ workClosed
    /\ wk' = [wk EXCEPT ![w] = Resting("exit")]
    /\ UNCHANGED <<cfg, parseVars, sinkVars, fs, now, processedLog, processedArchives, archives,
                   sent, workChan, workClosed, resultChan, resultClosed, insDone, phase,
                   stats, run, faults, hist>>

\* (mutant) a worker that marks without handing its batch over
AfterExtractDrop(n) == "mark"
\* where the worker goes after a successful extraction of n records
AfterExtract(n) == IF n > 0 THEN "send" ELSE "mark"

\* a worker receives a path, extracts and counts: an error, or the records
WorkerExtract(w) ==
    /\ phase = "running"
    /\ wk[w].pc = "recv"
    /\ workChan # << >>
    /\ workChan' = Tail(workChan)
    /\ LET p == Head(workChan)
           r == Extracted(fs, p)
           job == [path |-> p, id |-> IdOf(fs, p)]
       IN  IF r.err
           THEN /\ stats' = [stats EXCEPT !.Errors = @ + 1]
                /\ wk' = [wk EXCEPT ![w] = [pc |-> "mark", path |-> p, id |-> job.id,
                                            patents |-> << >>]]
                /\ hist' = [hist EXCEPT !.failed = @ \cup {p}]
           ELSE /\ stats' = [stats EXCEPT !.PatentsExtracted = @ + Len(r.patents)]
                /\ wk' = [wk EXCEPT ![w] = [pc |-> AfterExtract(Len(r.patents)),
                                            path |-> p, id |-> job.id,
                                            patents |-> r.patents]]
                /\ hist' = [hist EXCEPT
                              !.parsed = @ \cup {job},
                              !.pending = IF Len(r.patents) > 0 THEN @ \cup {job} ELSE @]
    /\ UNCHANGED <<cfg, parseVars, sinkVars, fs, now, processedLog, processedArchives, archives,
                   sent, workClosed, resultChan, resultClosed, insDone, phase, run, faults>>

\* the worker puts its batch on resultChan
WorkerSend(w) ==
    /\ phase = "running"
    /\ wk[w].pc = "send"
    /\ Len(resultChan) < ChanCap
    /\ resultChan' = Append(resultChan, [patents |-> wk[w].patents,
                                         src |-> [path |-> wk[w].path, id |-> wk[w].id]])
    /\ wk' = [wk EXCEPT ![w].pc = "mark", ![w].patents = << >>]
    /\ UNCHANGED <<cfg, parseVars, sinkVars, fs, now, processedLog, processedArchives, archives,
                   sent, workChan, workClosed, resultClosed, insDone, phase, stats, run,
                   faults, hist>>

\* markProcessed: the path enters the map, and the log unless the log cannot
\* be opened
WorkerMark(w) ==
    /\ phase = "running"
    /\ wk[w].pc = "mark"
    /\ processedArchives' = processedArchives \cup {wk[w].path}
    /\ \E ok \in Outcomes :
          /\ processedLog' = IF ok THEN processedLog \cup {wk[w].path} ELSE processedLog
          /\ hist' = [hist EXCEPT !.marked = @ \cup {wk[w].id},
                                  !.logged = IF ok THEN @ \cup {wk[w].id} ELSE @]
          /\ faults' = faults + Failed(ok)
    /\ wk' = [wk EXCEPT ![w].pc = "move"]
    /\ UNCHANGED <<cfg, parseVars, sinkVars, fs, now, archives, sent, workChan, workClosed,
                   resultChan, resultClosed, insDone, phase, stats, run>>

\* moveToOriginals and the count of archives: a staged file is renamed, which
\* may fail; the clock is read when the name is taken
WorkerMove(w) ==
    /\ phase = "running"
    /\ wk[w].pc = "move"
    /\ LET p == wk[w].path
           staged == Staged(p)
       IN  \E t \in (IF staged /\ Exists(fs, Path(Root, p.name)) THEN Clock ELSE {now}),
              ok \in (IF staged /\ Exists(fs, p) THEN Outcomes ELSE {TRUE}) :
             /\ fs' = moveToOriginals(fs, p, t, ok)
             /\ faults' = faults + Failed(ok)
             /\ now' = t
             /\ hist' = [hist EXCEPT
                           !.finished = @ \cup {[path |-> p, id |-> wk[w].id]},
                           !.stuck = IF staged /\ ~(ok /\ Exists(fs, p))
                                     THEN @ \cup {p} ELSE @]
    /\ stats' = [stats EXCEPT !.ArchivesProcessed = @ + 1]
    /\ wk' = [wk EXCEPT ![w] = Resting("recv")]
    /\ UNCHANGED <<cfg, parseVars, sinkVars, processedLog, processedArchives, archives, sent,
                   workChan, workClosed, resultChan, resultClosed, insDone, phase, run>>

\* (mutant) Run closes the results as soon as the work queue is closed
WorkersDoneEarly == workClosed
\* (mutant) Run goes on when one worker has left its loop
WorkersDoneOne == \E w \in Workers : wk[w].pc = "exit"
\* (mutant) Run waits for the inserter before it closes the results
WorkersDoneInserterFirst == (\A w \in Workers : wk[w].pc = "exit") /\ insDone
\* wg.Wait() returns: every worker has called wg.Done()
WorkersDone == \A w \in Workers : wk[w].pc = "exit"

\* Run, after wg.Wait(): every worker has returned, resultChan is closed
CloseResults ==
    /\ phase = "running"
    /\ WorkersDone
    /\ ~resultClosed
    /\ resultClosed' = TRUE
    /\ UNCHANGED <<cfg, parseVars, sinkVars, fs, now, processedLog, processedArchives, archives,
                   sent, workChan, workClosed, resultChan, wk, insDone, phase, stats,
                   run, faults, hist>>

\* the inserter receives a batch and enters insertPatents
InserterRecv ==
    /\ phase = "running"
    /\ resultChan # << >>
    /\ \E ok \in Outcomes :
          /\ InsBegin(Head(resultChan).patents, Head(resultChan).src, ok)
          /\ faults' = faults + Failed(ok)
    /\ resultChan' = Tail(resultChan)
    /\ UNCHANGED <<cfg, parseVars, fs, now, processedLog, processedArchives, archives, sent,
                   workChan, workClosed, resultClosed, wk, insDone, phase, stats, run,
                   hist>>

\* everything of the process but the count of failed calls
quietVars == <<fs, now, processedLog, processedArchives, archives, sent, workChan,
               workClosed, resultChan, resultClosed, wk, insDone, phase, stats, run, hist>>

InserterExec ==
    /\ phase = "running"
    /\ \E ok \in (IF Aborted THEN {FALSE} ELSE Outcomes), atServer \in BOOLEAN :
          /\ InsExec(ok, atServer)
          /\ faults' = IF Aborted THEN faults ELSE faults + Failed(ok)
    /\ UNCHANGED <<cfg, parseVars, quietVars>>

InserterCommit ==
    /\ phase = "running"
    /\ \E ok \in (IF Aborted THEN {FALSE} ELSE Outcomes) :
          /\ InsCommit(ok)
          /\ faults' = IF Aborted THEN faults ELSE faults + Failed(ok)
    /\ UNCHANGED <<cfg, parseVars, quietVars>>

\* insertPatents has returned: the count is added to the statistics
InserterReturn ==
    /\ phase = "running"
    /\ tx.state = "returned"
    /\ stats' = [stats EXCEPT !.PatentsInserted = @ + tx.result]
    /\ hist' = [hist EXCEPT
                  !.pending = @ \ {tx.src},
                  !.ingested = IF tx.clean /\ ~cfg.ForceOverwrite
                               THEN @ \cup {tx.src.id} ELSE @]
    /\ tx' = NoTx
    /\ UNCHANGED <<cfg, parseVars, store, grants, firstSeen, firstGrant, grantTitle, everForced>>
    /\ UNCHANGED <<fs, now, processedLog, processedArchives, archives, sent, workChan,
                   workClosed, resultChan, resultClosed, wk, insDone, phase, run, faults>>

\* the range over resultChan ends
InserterExit ==
    /\ phase = "running"
    /\ tx.state = "idle"
    /\ resultChan = << >>
    /\ resultClosed
    /\ ~insDone
    /\ insDone' = TRUE
    /\ UNCHANGED <<cfg, parseVars, sinkVars, fs, now, processedLog, processedArchives, archives,
                   sent, workChan, workClosed, resultChan, resultClosed, wk, phase,
                   stats, run, faults, hist>>

\* Run, after insWG.Wait(): the final statistics, and the process ends
Finish ==
    /\ phase = "running"
    /\ insDone
    /\ phase' = "done"
    /\ UNCHANGED <<cfg, parseVars, sinkVars, fs, now, processedLog, processedArchives, archives,
                   sent, workChan, workClosed, resultChan, resultClosed, wk, insDone,
                   stats, run, faults, hist>>

\* the process is killed: its memory is lost, an open transaction is rolled
\* back; the files, the log and the tables stay
Crash ==
    /\ phase = "running"
    /\ run < MaxRuns
    /\ phase' = "crashed"
    /\ tx' = NoTx
    /\ archives' = << >>
    /\ sent' = 0
    /\ workChan' = << >>
    /\ workClosed' = FALSE
    /\ resultChan' = << >>
    /\ resultClosed' = FALSE
    /\ wk' = [w \in Workers |-> Resting("off")]
    /\ insDone' = FALSE
    /\ stats' = ZeroStats
    /\ processedArchives' = {}
    /\ hist' = NewHist([loaded |-> {}, loadedIds |-> {}, pending |-> hist.pending,
                        logged |-> hist.logged, ingested |-> hist.ingested,
                        last |-> [crashed |-> TRUE, cfg |-> cfg,
                                  found |-> hist.found, marked |-> hist.marked]])
    /\ UNCHANGED <<cfg, parseVars, store, grants, firstSeen, firstGrant, grantTitle, everForced>>
    /\ UNCHANGED <<fs, now, processedLog, run, faults>>

\* the next start of the process: loadConfig, then NewExtractor, whose
\* loadProcessedArchives reads the log
Restart ==
    /\ phase \in {"done", "crashed"}
    /\ run < MaxRuns
    /\ cfg' \in Configs
    /\ processedArchives' = processedLog
    /\ archives' = << >>
    /\ sent' = 0
    /\ workChan' = << >>
    /\ workClosed' = FALSE
    /\ resultChan' = << >>
    /\ resultClosed' = FALSE
    /\ wk' = [w \in Workers |-> Resting("off")]
    /\ insDone' = FALSE
    /\ stats' = ZeroStats
    /\ phase' = "new"
    /\ run' = run + 1
    /\ hist' = NewHist([loaded |-> processedLog, loadedIds |-> hist.logged,
                        pending |-> hist.pending, logged |-> hist.logged,
                        ingested |-> hist.ingested,
                        last |-> IF phase = "crashed" THEN hist.last
                                 ELSE [crashed |-> FALSE, cfg |-> cfg,
                                       found |-> hist.found, marked |-> hist.marked]])
    /\ UNCHANGED <<sinkVars, parseVars, fs, now, processedLog, faults>>

Next ==
    \/ GetArchives
    \/ SendWork
    \/ CloseWork
    \/ \E w \in Workers : WorkerExit(w)
    \/ \E w \in Workers : WorkerExtract(w)
    \/ \E w \in Workers : WorkerSend(w)
    \/ \E w \in Workers : WorkerMark(w)
    \/ \E w \in Workers : WorkerMove(w)
    \/ CloseResults
    \/ InserterRecv
    \/ InserterExec
    \/ InserterCommit
    \/ InserterReturn
    \/ InserterExit
    \/ Finish
    \/ Crash
    \/ Restart

Spec == Init /\ [][Next]_vars

\* One call of Run in a process that is neither killed nor started again. The
\* goroutines of Run: the sender, the workers, the inserter, and Run itself.
Sender == SendWork \/ CloseWork
Worker(w) ==
    \/ WorkerExit(w)
    \/ WorkerExtract(w)
    \/ WorkerSend(w)
    \/ WorkerMark(w)
    \/ WorkerMove(w)
Inserter ==
    \/ InserterRecv
    \/ InserterExec
    \/ InserterCommit
    \/ InserterReturn
    \/ InserterExit
Main == GetArchives \/ CloseResults \/ Finish

RunNext ==
    \/ Main
    \/ Sender
    \/ \E w \in Workers : Worker(w)
    \/ Inserter

\* The Go scheduler runs every goroutine that stays runnable, and each call
\* of the database and of the file system returns.
Scheduled ==
    /\ WF_vars(Main)
    /\ WF_vars(Sender)
    /\ \A w \in Workers : WF_vars(Worker(w))
    /\ WF_vars(Inserter)

SpecRun == Init /\ [][RunNext]_vars /\ Scheduled

\* One call of Run over richer directories: a name that two staging patterns
\* match, a base name found in three directories, names inside and outside a
\* priority window of the year 2004, a log of earlier runs, and a file of
\* FilesRoot that carries the stamp of an earlier relocation.
ScanConfigs ==
    Configs \cup { [DefaultConfig EXCEPT !.ScanNewOnly = TRUE, !.ReprocessAll = TRUE] }
ScanStarts ==
    { [fs |-> { File(NewFiles, NamesSorted[5], "good2"), File(NewFiles, NamesSorted[2], "good1") },
       processed |-> {}, years |-> {0}],
      [fs |-> { File(Root, NamesSorted[2], "good1"), File(NewFiles, NamesSorted[2], "good2"),
                File(NewSub, NamesSorted[2], "corrupt") },
       processed |-> {}, years |-> {0}],
      [fs |-> { File(Root, NamesSorted[1], "good1"), File(Root, NamesSorted[3], "good2"),
                File(NewFiles, NamesSorted[6], "corrupt"), File(NewFiles, NamesSorted[7], "gzip") },
       processed |-> {}, years |-> {0, 2004}],
      [fs |-> { File(NewFiles, NamesSorted[2], "good1"), File(NewFiles, NamesSorted[3], "corrupt"),
                File(Root, NamesSorted[2], "good2") },
       processed |-> { Path(NewFiles, NamesSorted[2]) }, years |-> {0}],
      [fs |-> { File(NewFiles, NamesSorted[2], "good1"), File(NewFiles, NamesSorted[3], "corrupt"),
                File(Root, NamesSorted[2], "good2") },
       processed |-> { Path(NewFiles, NamesSorted[3]), Path(Root, NamesSorted[2]) },
       years |-> {0}],
      [fs |-> { File(NewFiles, NamesSorted[2], "good1"), File(Root, NamesSorted[2], "good2"),
                File(Root, Stamped(NamesSorted[2], MaxClock), "corrupt") },
       processed |-> { Path(NewFiles, NamesSorted[2]) }, years |-> {0}] }

ScanInit ==
    /\ SinkStart
    /\ Constructed
    /\ \E st \in ScanStarts :
          /\ cfg \in { [c EXCEPT !.PriorityMinYear = y, !.PriorityMaxYear = y] :
                          c \in ScanConfigs, y \in st.years }
          /\ fs = st.fs
          /\ processedLog = st.processed
          /\ processedArchives = st.processed
          /\ LET ids == { IdOf(st.fs, q) : q \in st.processed }
             IN  hist = NewHist([loaded |-> st.processed, loadedIds |-> ids,
                                 pending |-> {}, logged |-> ids,
                                 ingested |-> {}, last |-> NoRun])
    /\ now = 1
    /\ run = 1
    /\ faults = 0
    /\ NoParse

SpecScan == ScanInit /\ [][RunNext]_vars

-----------------------------------------------------------------------------
(* Claims about the UPSERT *)

\* an Exec step of the open transaction succeeded
ExecStep == tx.state = "open" /\ tx'.state = "open" /\ tx'.inserted = tx.inserted + 1

\* the transaction has executed its one record, which met the stored row r
Executed(r) ==
    /\ tx.state = "open" /\ tx.i = 2 /\ tx.inserted = 1
    /\ r \in store /\ r.pub_number = tx.patents[1].PubNumber

\* C3 (as claimed): in fill-only mode every non-key column of a row holds the
\* first non-blank value that any record of its pub_id carried for it, and a
\* blank one only when every record was blank there
C3_FirstNonBlankKept ==
    ~everForced =>
        \A r \in store : \A c \in NonKeyCols :
            LET f == firstSeen[r.pub_number][c]
            IN  IF IsNull(f) THEN Blank(c, r[c]) ELSE r[c] = f

\* C4 (as claimed): in any configuration, a column of a stored row that holds
\* non-blank data holds non-blank data after every step
C4_NeverBlanked ==
    [][\A r \in store : \A c \in NonKeyCols :
          ~Blank(c, r[c]) =>
              \E r2 \in store' : r2.pub_number = r.pub_number /\ ~Blank(c, r2[c])]_vars

\* C4 (amended): a stored non-blank column never becomes blank in fill-only
\* mode; in force-overwrite mode that holds of every column but
\* description_text, claims_text and description_body
C4_NeverBlankedUnlessForced ==
    [][\A r \in store :
          \A c \in (IF cfg.ForceOverwrite THEN NonKeyCols \ DescCols ELSE NonKeyCols) :
              ~Blank(c, r[c]) =>
                  \E r2 \in store' : r2.pub_number = r.pub_number /\ ~Blank(c, r2[c])]_vars

\* C4 witness: a record with a blank title and a blank description has been
\* executed, in fill-only mode, on a row that holds both
C4_Witness ==
    \E r \in store :
        /\ Executed(r) /\ ~tx.force
        /\ \A c \in {"title", "description_text"} :
              ~Blank(c, r[c]) /\ Blank(c, ExecArgs(tx.patents[1])[c])

\* the specification's fill-only rule: a text column is kept when it is not
\* null and not blank, any other column when it is not null
Kept(c, x) ==
    IF c \in TextCols THEN ~IsNull(x) /\ TrimSpace(x[1]) # EmptyText ELSE ~IsNull(x)

\* C6: in force-overwrite mode an UPSERT on a stored pub_id sets the three
\* description columns to the new record's values and applies the fill-only
\* rule to every other column, so that a kept title, inventors or assignees
\* value is unchanged
C6_ForceFrame ==
    [][ExecStep /\ tx.force =>
          LET ex == ExecArgs(tx.patents[tx.i])
          IN  \A r \in RowOf(tx.work, ex.pub_number) :
                \E r2 \in tx'.work :
                    /\ r2.pub_number = r.pub_number
                    /\ \A c \in DescCols : r2[c] = ex[c]
                    /\ \A c \in NonKeyCols \ DescCols :
                          r2[c] = IF Kept(c, r[c]) THEN r[c] ELSE ex[c]]_vars

\* C6 witness: in force-overwrite mode a record with a blank title and no
\* inventors has been executed on a row that holds a title, inventors and a
\* description other than the record's
C6_Witness ==
    \E r \in store :
        /\ Executed(r) /\ tx.force
        /\ Kept("title", r.title) /\ Kept("inventors", r.inventors)
        /\ Blank("title", ExecArgs(tx.patents[1]).title)
        /\ Blank("inventors", ExecArgs(tx.patents[1]).inventors)
        /\ ~Blank("description_body", r.description_body)
        /\ r.description_body # ExecArgs(tx.patents[1]).description_body

-----------------------------------------------------------------------------
(* Claims about the keys *)

OneRowPerKey ==
    /\ \A r1, r2 \in store : r1.pub_number = r2.pub_number => r1 = r2
    /\ \A g1, g2 \in grants : g1.grant_number = g2.grant_number => g1 = g2

\* every key that a committed record carried has a row
KeysKept ==
    /\ \A p \in PubIds :
          (\E c \in NonKeyCols : ~IsNull(firstSeen[p][c])) => RowOf(store, p) # {}
    /\ \A g \in GrantIds :
          ~IsNull(firstGrant[g]) => \E r \in grants : r.grant_number = g

\* the columns whose merge does not depend on the mode, the year apart
MergedCols == NonKeyCols \ (DescCols \cup {"year"})

\* a publication row holds data in every column where a committed record did
PublicationsMerged ==
    \A r \in store : \A c \in MergedCols :
        ~IsNull(firstSeen[r.pub_number][c]) => ~Blank(c, r[c])

-----------------------------------------------------------------------------
(* Claims about the pipeline *)

\* the archives of this run that the processed set did not hold at its start
Fresh == { archives[i] : i \in DOMAIN archives } \ hist.loaded
Parsed(p) == \E j \in hist.parsed : j.path = p
Pending(p) == \E j \in hist.pending : j.path = p
\* a batch is on resultChan or with the inserter
InFlight(j) ==
    \/ \E k \in DOMAIN resultChan : resultChan[k].src = j
    \/ tx.state # "idle" /\ tx.src = j
StillStaged(p) == Staged(p) /\ Exists(fs, p)

C2_FailedNotProcessed ==
    /\ stats.Errors >= Cardinality(hist.failed)
    /\ \A p \in hist.failed \ hist.loaded : p \notin processedArchives

\* C5: in fill-only mode, a commit of the records of an archive that has been
\* ingested before, all of its records executed and committed, leaves the
\* table as it was
C5_ReingestNoOp ==
    [][(/\ tx.state = "open" /\ tx'.state = "returned"
        /\ ~tx.force /\ ~everForced
        /\ tx.src.id \in hist.ingested) => store' = store]_vars

\* C5 witness: the records of an archive ingested before have been executed
\* and committed again, on a table that holds another archive's values too
C5_Witness ==
    /\ tx.state = "returned" /\ tx.clean /\ tx.result > 0
    /\ tx.src.id \in hist.ingested
    /\ {"good1", "good2"} \subseteq hist.ingested \cup {tx.src.id}

\* C8 (as claimed): without reprocess mode, discovery returns no archive that
\* a worker appended to the processed set in an earlier run, wherever the
\* file is now
C8_ProcessedExcluded ==
    phase = "running" /\ ~cfg.ReprocessAll => hist.found \cap hist.loadedIds = {}

\* C9 (as claimed): after a crash and a restart with the same configuration
\* and no reprocess mode, no archive whose worker had appended it to the
\* processed set is extracted again, and every other archive of the crashed
\* run is in the work list again
C9_OnlyUnmarkedReprocessed ==
    hist.last.crashed /\ ~cfg.ReprocessAll /\ cfg = hist.last.cfg
        /\ phase \in {"running", "done"} =>
            /\ \A j \in hist.parsed : j.id \notin hist.last.marked
            /\ (hist.last.found \ hist.last.marked) \subseteq hist.found

\* the file of a finished archive is in FilesRoot under its base name, or
\* under its base name with a timestamp
AtOriginals(j) ==
    \E f \in fs :
        /\ f.dir = Root /\ f.id = j.id
        /\ f.name = j.path.name \/ \E t \in 1..MaxClock : f.name = Stamped(j.path.name, t)

-----------------------------------------------------------------------------
(* Claims about the order of events in Run *)

\* the batches of this run that the inserter has not yet returned from
Unhandled == hist.pending \cap { j \in hist.parsed : Len(Records(j.id)) > 0 }

\* C11: in Run the work queue is closed only after the last discovered
\* archive was sent, the results channel is closed only after every worker has
\* returned (so no worker is at its send with the channel closed), the
\* inserter returns only after the results channel is closed and empty and it
\* has returned from insertPatents for every batch that was sent, and the
\* final statistics are reached only after the inserter has returned.
C11_RunOrder ==
    /\ workClosed => sent = Len(archives)
    /\ resultClosed => workClosed /\ workChan = << >> /\ \A w \in Workers : wk[w].pc = "exit"
    /\ insDone => resultClosed /\ resultChan = << >> /\ tx.state = "idle" /\ Unhandled = {}
    /\ phase = "done" => insDone

\* a run of two archives with records has printed its final statistics
C11_Witness ==
    /\ phase = "done"
    /\ Cardinality({ j \in hist.parsed : Len(Records(j.id)) > 0 }) = 2
    /\ stats.PatentsInserted = 2

-----------------------------------------------------------------------------
(* Claims about a shutdown signal *)

\* the process receives SIGINT or SIGTERM: the publication extractor installs
\* no handler, so the Go runtime ends the process at once
Signalled == phase = "running" /\ phase' = "crashed"

\* C12: when a shutdown signal is delivered, every worker finishes the archive
\* it is processing and that archive is appended to the processed set: an
\* archive a worker had taken and not yet appended when the signal came is in
\* the processed log once the process has ended.
C12_SignalFinishesCurrent ==
    [][Signalled =>
         \A w \in Workers :
            wk[w].pc \in {"send", "mark"} => wk[w].path \in processedLog']_vars

-----------------------------------------------------------------------------
(* Claims about errors inside a batch transaction *)

\* insertPatents returns from a transaction it had opened
BatchReturns == tx.state = "open" /\ tx'.state = "returned"

\* C13: an error on one record's UPSERT does not abort the batch. When
\* insertPatents returns from a batch whose commit did not fail of itself,
\* every record other than the ones whose own UPSERT was in error is stored,
\* and the count returned is the number of those records.
C13_OthersCommitted ==
    [][BatchReturns /\ tx'.commit # "failed" =>
         /\ tx'.result = Len(tx.patents) - Cardinality(tx.rejected)
         /\ \A i \in DOMAIN tx.patents \ tx.rejected :
               RowOf(store', tx.patents[i].PubNumber) # {}]_vars

\* the commit of the open transaction fails
CommitFails == tx.state = "open" /\ tx'.state = "returned" /\ tx'.commit # "ok"
\* the inserter takes the result of a transaction whose commit failed
FailedBatchReturns ==
    /\ phase' = "running"
    /\ tx.state = "returned" /\ tx.commit \in {"failed", "aborted"}
    /\ tx'.state = "idle"

\* what the claim says of a failed commit apart from the errors counter
CommitFailureContained ==
    /\ CommitFails => store' = store
    /\ FailedBatchReturns =>
          /\ stats'.PatentsInserted = stats.PatentsInserted
          /\ resultChan' = resultChan
          /\ processedArchives' = processedArchives
          /\ processedLog' = processedLog

\* C14: when the commit of a batch transaction fails, none of the batch's
\* records is stored, the count of inserted records is not increased, the
\* errors counter is incremented by one, the batch is not put back on the
\* queue, and the processed set keeps the producing archive.
C14_CommitFailureCounted ==
    [][/\ CommitFailureContained
       /\ FailedBatchReturns => stats'.Errors = stats.Errors + 1]_vars

-----------------------------------------------------------------------------
(* The parsers: bytes as runs *)

\* the characters of the sampled documents: a letter, a digit, white space,
\* the byte 0, and a tag such as <b>
Letter == "a"
Digit == "7"
White == " "
Nul == "NUL"
Tag == "<b>"
Chars == {Letter, Digit, White, Nul, Tag}

Run(c, n) == [c |-> c, n |-> n]
Str(c, n) == IF n = 0 THEN << >> ELSE <<Run(c, n)>>
\* the bytes one character takes
Width(c) == IF c = Tag THEN 3 ELSE 1

\* len(s)
RECURSIVE Bytes(_)
Bytes(t) == IF t = << >> THEN 0 ELSE t[1].n * Width(t[1].c) + Bytes(Tail(t))

\* the same string with no empty run and no two adjacent runs of one character
RECURSIVE Pack(_)
Pack(t) ==
    IF t = << >> THEN << >>
    ELSE LET r == Pack(Tail(t))
         IN  IF t[1].n = 0 THEN r
             ELSE IF r # << >> /\ r[1].c = t[1].c
             THEN <<Run(t[1].c, t[1].n + r[1].n)>> \o Tail(r)
             ELSE <<t[1]>> \o r

\* s[:k]
RECURSIVE Cut(_, _)
Cut(t, k) ==
    IF t = << >> \/ k < Width(t[1].c) THEN << >>
    ELSE LET w == Width(t[1].c)
             m == IF t[1].n * w <= k THEN t[1].n ELSE k \div w
         IN  IF m < t[1].n THEN <<Run(t[1].c, m)>>
             ELSE <<t[1]>> \o Cut(Tail(t), k - m * w)

\* strings.TrimSpace
RECURSIVE TrimLeftRuns(_)
TrimLeftRuns(t) ==
    IF t # << >> /\ t[1].c = White THEN TrimLeftRuns(Tail(t)) ELSE t
RECURSIVE TrimRightRuns(_)
TrimRightRuns(t) ==
    IF t # << >> /\ t[Len(t)].c = White THEN TrimRightRuns(SubSeq(t, 1, Len(t) - 1)) ELSE t
TrimSpaceRuns(t) == TrimRightRuns(TrimLeftRuns(t))

\* regexp `<[^>]+>` replaced by " "
TagsToSpace(t) == Pack([i \in DOMAIN t |-> IF t[i].c = Tag THEN Run(White, t[i].n) ELSE t[i]])
\* regexp `\s+` replaced by " "
CollapseSpace(t) == [i \in DOMAIN t |-> IF t[i].c = White THEN Run(White, 1) ELSE t[i]]
\* strings.ReplaceAll(text, "\x00", "")
DropNul(t) == Pack(SelectSeq(t, LAMBDA r : r.c # Nul))

\* cleanXMLText of the publication extractor: tags, trim, white space
cleanXMLText(t) == CollapseSpace(TrimSpaceRuns(TagsToSpace(t)))
\* cleanXMLText of the grant extractor: tags, byte 0, white space, trim
cleanXMLTextGrant(t) == TrimSpaceRuns(CollapseSpace(DropNul(TagsToSpace(t))))

HasNul(t) == \E i \in DOMAIN t : t[i].c = Nul
HasTag(t) == \E i \in DOMAIN t : t[i].c = Tag
AllDigits(t) == \A i \in DOMAIN t : t[i].c = Digit
\* (mutant) the captured text as it is
KeepAll(t) == t
\* strings.Map keeping '0'..'9'
KeepDigits(t) == Pack(SelectSeq(t, LAMBDA r : r.c = Digit))

-----------------------------------------------------------------------------
(* The parsers: parseXML, parseAlternateXML and what they call *)

\* the limits written in the parsers
MaxTitle == 500
MaxAbstract == 5000
MaxDescription == 150000
MaxListed == 50

\* bytes the parser writes itself: "[0001] ", "CLAIMS:\n", "DESCRIPTION:\n"
Lit == "x"
ParaPrefix == Str(Lit, 7)
ClaimsHead == Str(Lit, 8)
DescHead == Str(Lit, 13)
Blank2 == Str(White, 2)

\* the string field of an element as xml.Unmarshal fills it: character data only
CharData(t) == Pack(SelectSeq(t, LAMBDA r : r.c # Tag))
\* what a group ([^<]+) of a regular expression captures: a text that is not
\* empty and holds no tag, or no match
Captured(t) == t # << >> /\ ~HasTag(t)

\* regexp `US(\d+)` on xmlPath: the digits after "US" in the file name
PathDigits == {"20030050000"}
PathNumber(xmlPath) ==
    IF \E i \in 1..(Len(xmlPath) - 1) : xmlPath[i] = "US" /\ xmlPath[i + 1] \in PathDigits
    THEN Str(Digit, 11) ELSE << >>

\* the first text of a list among the places hits, or << >>
FirstThat(list, hits) ==
    IF hits = {} THEN << >>
    ELSE list[CHOOSE i \in hits : \A j \in hits : i <= j]
\* where in a list a group ([^<]+) captures, and where a group (\d+) does
CapturedIn(list) == { i \in DOMAIN list : Captured(list[i]) }

\* extractAppNumber of the publication extractor: the first doc-number made
\* of digits after <application-reference>, else after <domestic-filing-data>
DigitsIn(list) == { i \in DOMAIN list : list[i] # << >> /\ AllDigits(list[i]) }
extractAppNumber(doc) ==
    LET after == doc.appRef \o doc.domestic
        new == FirstThat(after, DigitsIn(after))
    IN  IF new # << >> THEN TrimSpaceRuns(new)
        ELSE TrimSpaceRuns(FirstThat(doc.domestic, DigitsIn(doc.domestic)))

\* extractAppNumber of the backfill tool: the first doc-number inside the
\* application-reference block, else inside domestic-filing-data, with every
\* character that is not a digit removed
extractAppNumberBackfill(doc) ==
    LET new == FirstThat(doc.appRef, CapturedIn(doc.appRef))
        old == FirstThat(doc.domestic, CapturedIn(doc.domestic))
    IN  IF new # << >> THEN KeepDigits(new)
        ELSE IF old # << >> THEN KeepDigits(old)
        ELSE << >>

\* the texts of a list, the empty ones left out
NonEmpty(list) == SelectSeq(list, LAMBDA x : x # << >>)
\* the same, the loop being left once cap of them are collected
Collect(list, cap) == SubSeq(NonEmpty(list), 1, Min(Len(NonEmpty(list)), cap))
\* cleanXMLText on each text of a list
Cleaned(list) == [i \in DOMAIN list |-> cleanXMLText(list[i])]

\* synthesizeDescription: the paragraphs of the description block, cleaned and
\* numbered "[0001] ", joined by blank lines
RECURSIVE JoinParas(_, _)
JoinParas(paras, acc) ==
    IF paras = << >> THEN acc
    ELSE JoinParas(Tail(paras),
                   (IF acc # << >> THEN acc \o Blank2 ELSE acc) \o ParaPrefix \o Head(paras))
synthesizeDescription(doc) ==
    JoinParas(NonEmpty(Cleaned(doc.paragraphs)), << >>)

\* "CLAIMS:\n" and the first ten claims, "DESCRIPTION:\n" and the description
CombinedDescription(claims, descText) ==
    LET shown == SubSeq(claims, 1, Min(Len(claims), MaxClaimsShown))
        head == IF Len(claims) > 0
                THEN ClaimsHead \o Flatten([i \in DOMAIN shown |-> shown[i] \o Blank2])
                ELSE << >>
    IN  IF descText # << >>
        THEN (IF head # << >> THEN head \o DescHead ELSE head) \o descText
        ELSE head

\* a record: the fields of Patent the parsers fill from text
Record(number, title, abstract, claims, descText, doc, inventors, assignees, xmlPath) ==
    [ PubNumber         |-> number,
      Title             |-> Cut(title, MaxTitle),
      AbstractText      |-> Cut(abstract, MaxAbstract),
      Claims            |-> claims,
      DescriptionText   |-> Cut(CombinedDescription(claims, descText), MaxDescription),
      ApplicationNumber |-> extractAppNumber(doc),
      Inventors         |-> inventors,
      Assignees         |-> assignees,
      RawXMLPath        |-> xmlPath ]

\* "given family" when both names are there, as parseXML builds it
StructName(person) ==
    LET g == CharData(person.given)
        f == CharData(person.family)
    IN  IF g # << >> /\ f # << >> THEN Pack(g \o Str(White, 1) \o f) ELSE << >>
\* the orgname of an assignee, as parseXML takes it
StructOrg(org) == CharData(org.orgname)

\* the same from the regular expressions of parseAlternateXML, trimmed and cleaned
AltName(person) ==
    IF Captured(person.given) /\ Captured(person.family)
    THEN cleanXMLText(TrimSpaceRuns(Pack(person.given \o Str(White, 1) \o person.family)))
    ELSE << >>
AltOrg(org) ==
    IF Captured(org.orgname) THEN cleanXMLText(TrimSpaceRuns(org.orgname)) ELSE << >>

\* every <doc-number> of the document in the order of the file
DocNumbers(doc) == <<doc.pubDocNumber>> \o doc.appRef \o doc.domestic

\* parseAlternateXML: the fields are found by regular expressions on the bytes
parseAlternateXML(doc, xmlPath) ==
    LET first == FirstThat(DocNumbers(doc), CapturedIn(DocNumbers(doc)))
        number == IF first # << >> THEN Some(TrimSpaceRuns(first))
                  ELSE IF PathNumber(xmlPath) # << >> THEN Some(PathNumber(xmlPath))
                  ELSE NULL
        title == IF Captured(doc.title) THEN cleanXMLText(doc.title) ELSE << >>
        claims == Collect(Cleaned(doc.claims), MaxListed)
    IN  IF IsNull(number) THEN NULL
        ELSE Some(Record(number[1], title, cleanXMLText(doc.abstract), claims,
                         synthesizeDescription(doc), doc,
                         Collect([i \in DOMAIN doc.inventors |-> AltName(doc.inventors[i])], MaxListed),
                         Collect([i \in DOMAIN doc.assignees |-> AltOrg(doc.assignees[i])], MaxListed), xmlPath))

\* parseXML: the document is decoded by xml.Unmarshal, and given to
\* parseAlternateXML when that fails
parseXML(doc, xmlPath) ==
    IF ~doc.wellFormed THEN parseAlternateXML(doc, xmlPath)
    ELSE LET docNumber == CharData(doc.pubDocNumber)
             number == IF docNumber # << >> THEN Some(docNumber)
                       ELSE IF PathNumber(xmlPath) # << >> THEN Some(PathNumber(xmlPath))
                       ELSE NULL
         IN  IF IsNull(number) THEN NULL
             ELSE Some(Record(number[1], TrimSpaceRuns(CharData(doc.title)),
                              cleanXMLText(doc.abstract),
                              NonEmpty(Cleaned(doc.claims)),
                              synthesizeDescription(doc), doc,
                              NonEmpty([i \in DOMAIN doc.inventors |-> StructName(doc.inventors[i])]),
                              NonEmpty([i \in DOMAIN doc.assignees |-> StructOrg(doc.assignees[i])]), xmlPath))

-----------------------------------------------------------------------------
(* The parsers: the containers, and the grant converter *)

\* (mutant) the name inside the archive alone
XmlPathBare(base, name) == name
\* xmlPath: filepath.Base(archivePath) + "/" + the name inside the archive
XmlPathOf(base, name) == base \o <<"/">> \o name

\* An entry of an archive is readable, or opening it fails ("open": f.Open,
\* zip.NewReader), or reading its bytes fails ("read": ioutil.ReadAll).
Unreadable(f) == f.bad # "no"

\* parseXML on every .XML file of a list, with the archive's base name put
\* before the file's name; a file that cannot be opened or read is passed
\* over, and a nil result is left out
ParseFiles(files, base) ==
    Flatten([i \in DOMAIN files |->
               IF HasSuffix(ToUpper(files[i].name), <<".XML">>) /\ ~Unreadable(files[i])
               THEN parseXML(files[i].doc, XmlPathOf(base, files[i].name))
               ELSE NULL])

IsZipName(name) == HasSuffix(ToUpper(name), <<".ZIP">>)

\* extractFromZIP: the nested ZIPs when there is one, else the XML entries
extractFromZIP(arc) ==
    LET base == arc.path.name
        hasNestedZips == \E i \in DOMAIN arc.entries : IsZipName(arc.entries[i].name)
    IN  IF hasNestedZips
        THEN Flatten([i \in DOMAIN arc.entries |->
                        LET f == arc.entries[i]
                        IN  IF IsZipName(f.name) /\ ~Contains(f.name, "DTDS")
                                                 /\ ~Contains(f.name, "ENTITIES")
                                                 /\ ~Unreadable(f)
                            THEN ParseFiles(f.files, base) ELSE << >>])
        ELSE ParseFiles(arc.entries, base)

\* extractFromTAR returns an error: the bytes of an XML or ZIP entry could not
\* be read from the stream; the tar reader keeps that error, the loop goes
\* on to tarReader.Next(), which returns it, and the function returns nil
TarReadFails(arc) ==
    \E i \in DOMAIN arc.entries :
       /\ arc.entries[i].bad = "read"
       /\ \/ HasSuffix(ToUpper(arc.entries[i].name), <<".XML">>)
          \/ IsZipName(arc.entries[i].name)
\* extractFromTAR: each entry is an XML file, a nested ZIP, or skipped
extractFromTAR(arc) ==
    LET base == arc.path.name
    IN  IF TarReadFails(arc) THEN << >>
        ELSE Flatten([i \in DOMAIN arc.entries |->
                        LET f == arc.entries[i]
                        IN  IF HasSuffix(ToUpper(f.name), <<".XML">>) THEN ParseFiles(<<f>>, base)
                            ELSE IF IsZipName(f.name) /\ ~Unreadable(f)
                                 THEN ParseFiles(f.files, base)
                            ELSE << >>])

\* the worker's choice between the two by the name of the archive
ExtractedFrom(arc) ==
    LET lower == ToLower(arc.path.name)
    IN  IF HasSuffix(lower, <<".zip">>) THEN extractFromZIP(arc)
        ELSE IF Contains(lower, ".tar") THEN extractFromTAR(arc)
        ELSE << >>
\* the error the worker gets with them
ExtractFails(arc) ==
    LET lower == ToLower(arc.path.name)
    IN  IF HasSuffix(lower, <<".zip">>) THEN FALSE
        ELSE IF Contains(lower, ".tar") THEN TarReadFails(arc)
        ELSE TRUE

\* convertGrant: every grant decoded becomes a record
convertGrant(uspg, source) ==
    [ GrantNumber       |-> cleanXMLTextGrant(uspg.docNumber),
      Title             |-> cleanXMLTextGrant(uspg.title),
      ApplicationNumber |-> cleanXMLTextGrant(uspg.appNumber),
      AbstractText      |-> cleanXMLTextGrant(uspg.abstract),
      RawXMLSource      |-> source ]

\* processArchive of the grant extractor up to insertGrants: the first file
\* of the ZIP is decoded grant by grant; a decoding error gives nothing
parseGrants(arc) ==
    LET xmlPath == XmlPathOf(arc.path.name, arc.entries[1].name)
    IN  IF arc.entries = << >> \/ ~arc.wellFormed THEN << >>
        ELSE [i \in DOMAIN arc.entries[1].grants |->
                convertGrant(arc.entries[1].grants[i], xmlPath)]

-----------------------------------------------------------------------------
(* The parsers: the sampled documents and archives *)

\* a text of n letters: as it is, between white space, between tags, with a
\* byte 0 in it, or white space only
TextForms == {"plain", "padded", "tagged", "nul", "blank"}
Sample(q, n) ==
    CASE q = "plain"  -> Str(Letter, n)
      [] q = "padded" -> Str(White, 1) \o Str(Letter, n) \o Str(White, 1)
      [] q = "tagged" -> Str(Tag, 1) \o Str(Letter, n) \o Str(Tag, 1)
      [] q = "nul"    -> Str(Letter, 1) \o Str(Nul, 1) \o Str(Letter, n - 2)
      [] OTHER        -> Str(White, 2)

\* short texts, texts at the limit of their field, texts one byte over it
Sizes == {"short", "limit", "over"}
SizeOf(z, limit) == CASE z = "short" -> 3 [] z = "limit" -> limit [] OTHER -> limit + 1

\* the <doc-number> of the publication: absent, white space, the digits of
\* the file's name, or other digits
NumberForms == {"none", "blank", "digits", "other"}
NumberOf(f) ==
    CASE f = "none" -> << >> [] f = "blank" -> Str(White, 1)
      [] f = "other" -> Str(Digit, 10) [] OTHER -> Str(Digit, 11)

\* the application number: in <application-reference> as digits or as
\* "09/123456", in <domestic-filing-data>, or nowhere
AppForms == {"new", "slash", "old", "none"}
AppRefOf(f) ==
    CASE f = "new"   -> << Str(Digit, 8) >>
      [] f = "slash" -> << Str(Digit, 2) \o Str(Letter, 1) \o Str(Digit, 6) >>
      [] OTHER       -> << >>
DomesticOf(f) == IF f = "old" THEN << Str(Digit, 8) >> ELSE << >>

\* how many claims, inventors and assignees a document has
Counts == {0, 1, MaxListed, MaxListed + 1}

MkDoc(wf, q, z, num, k, app) ==
    [ wellFormed   |-> wf,
      pubDocNumber |-> NumberOf(num),
      title        |-> Sample(q, SizeOf(z, MaxTitle)),
      abstract     |-> Sample(q, SizeOf(z, MaxAbstract)),
      claims       |-> [i \in 1..k |-> Sample(q, 3)],
      paragraphs   |-> << Sample(q, SizeOf(z, MaxDescription)) >>,
      inventors    |-> [i \in 1..k |-> [given |-> Sample(q, 3), family |-> Str(Letter, 3)]],
      assignees    |-> [i \in 1..k |-> [orgname |-> Sample(q, 3)]],
      appRef       |-> AppRefOf(app),
      domestic     |-> DomesticOf(app) ]

\* xml.Unmarshal refuses a document that holds the byte 0
Docs ==
    { MkDoc(wf, q, z, num, k, app) :
        wf \in BOOLEAN, q \in TextForms, z \in Sizes, num \in NumberForms,
        k \in Counts, app \in AppForms } \ 
    { MkDoc(TRUE, "nul", z, num, k, app) :
        z \in Sizes, num \in NumberForms, k \in Counts, app \in AppForms }

\* the names of the XML files inside the archives
XmlNames == { <<"US", "20030050000", "A1", ".xml">>, <<"doc", ".XML">> }
NoDoc == [wellFormed |-> FALSE]
XmlEntry(name, doc) == [name |-> name, doc |-> doc, files |-> << >>, bad |-> "no"]
ZipEntry(name, files) == [name |-> name, doc |-> NoDoc, files |-> files, bad |-> "no"]

\* the four containers of publications
ContainerForms == {"nested", "direct", "tar", "tarzip"}
Archive(form, name, doc) ==
    CASE form = "nested" ->
           [kind |-> "archive", path |-> Path(Root, <<"I20030313", ".zip">>),
            entries |-> << ZipEntry(<<"DTDS", ".ZIP">>, << XmlEntry(name, doc) >>),
                           ZipEntry(<<"UTIL0046", "/", "US20030050000A1", ".ZIP">>,
                                    << XmlEntry(name, doc) >>) >>]
      [] form = "direct" ->
           [kind |-> "archive", path |-> Path(Root, <<"I20030320", ".zip">>),
            entries |-> << XmlEntry(name, doc) >>]
      [] form = "tar" ->
           [kind |-> "archive", path |-> Path(NewFiles, <<"I20030327", ".tar">>),
            entries |-> << XmlEntry(<<"readme", ".txt">>, doc), XmlEntry(name, doc) >>]
      [] OTHER ->
           [kind |-> "archive", path |-> Path(NewFiles, <<"I20030327", ".tar", ".gz">>),
            entries |-> << ZipEntry(<<"US20030050000A1", ".zip">>, << XmlEntry(name, doc) >>) >>]

\* a grant as xml.Decoder decodes it: the character data of its elements
MkGrant(num, q) ==
    [ docNumber |-> IF num = "digits" THEN Str(Digit, 8) ELSE NumberOf(num),
      title     |-> Sample(q, 3),
      appNumber |-> Str(Digit, 8),
      abstract  |-> Sample(q, 3) ]
GrantDocs == { MkGrant(num, q) : num \in NumberForms, q \in TextForms \ {"nul"} }
GrantArchive(wf, grs) ==
    [kind |-> "grants", path |-> Path(Root, <<"ipg250415", ".zip">>), wellFormed |-> wf,
     entries |-> << [name |-> <<"ipg250415", ".xml">>, grants |-> grs] >>]
GrantArchives ==
    { GrantArchive(wf, <<g1, g2>>) : wf \in BOOLEAN, g1 \in GrantDocs, g2 \in GrantDocs }

ParseInputs ==
    { Archive(form, name, doc) : form \in ContainerForms, name \in XmlNames, doc \in Docs }
      \cup GrantArchives

-----------------------------------------------------------------------------
(* The parsers applied to one input *)

ParseInit ==
    /\ cfg = DefaultConfig
    /\ SinkStart
    /\ PipeStart
    /\ inp \in ParseInputs
    /\ out = NoOutput

\* a worker of the publication extractor extracts the archive
ExtractArchive ==
    /\ inp.kind = "archive"
    /\ out = NoOutput
    /\ out' = [op |-> "extract", patents |-> ExtractedFrom(inp)]
    /\ UNCHANGED <<cfg, sinkVars, pipeVars, inp>>

\* the document of the archive reaches the backfill tool's extractAppNumber
BackfillDoc(arc) ==
    LET last == arc.entries[Len(arc.entries)]
    IN  IF last.files # << >> THEN last.files[1].doc ELSE last.doc
BackfillAppNumber ==
    /\ inp.kind = "archive"
    /\ out = NoOutput
    /\ out' = [op |-> "backfill", number |-> extractAppNumberBackfill(BackfillDoc(inp))]
    /\ UNCHANGED <<cfg, sinkVars, pipeVars, inp>>

\* a worker of the grant extractor parses the archive
ConvertGrants ==
    /\ inp.kind = "grants"
    /\ out = NoOutput
    /\ out' = [op |-> "grants", grants |-> parseGrants(inp)]
    /\ UNCHANGED <<cfg, sinkVars, pipeVars, inp>>

ParseNext ==
    \/ ExtractArchive
    \/ BackfillAppNumber
    \/ ConvertGrants

SpecParse == ParseInit /\ [][ParseNext]_vars

-----------------------------------------------------------------------------
(* One archive with entries that cannot be opened or read *)

\* three documents under three names, each readable or not
StreamDoc == MkDoc(TRUE, "plain", "short", "digits", 1, "new")
StreamNames ==
    << <<"US", "20030050000", "A1", ".xml">>, <<"doc2", ".xml">>, <<"doc3", ".XML">> >>
Failing(f, how) == [f EXCEPT !.bad = how]
StreamXml(i, how) == Failing(XmlEntry(StreamNames[i], StreamDoc), how)
StreamZip(i, how, inner) ==
    Failing(ZipEntry(<<"UTIL", ToString(i), ".ZIP">>, << StreamXml(i, inner) >>), how)
Failures == {"no", "open", "read"}
\* a ZIP of XML files, a ZIP of ZIPs, a TAR of XML files (whose entries are
\* read from the stream, never opened), a TAR with ZIPs and an XML file
StreamInputs ==
    { [kind |-> "archive", path |-> Path(Root, <<"I20030320", ".zip">>),
       entries |-> << StreamXml(1, a), StreamXml(2, b), StreamXml(3, c) >>] :
        a \in Failures, b \in Failures, c \in Failures }
      \cup
    { [kind |-> "archive", path |-> Path(Root, <<"I20030313", ".zip">>),
       entries |-> << StreamZip(1, a, "no"), StreamZip(2, "no", b), StreamZip(3, c, "no") >>] :
        a \in Failures, b \in Failures, c \in Failures }
      \cup
    { [kind |-> "archive", path |-> Path(NewFiles, <<"I20030327", ".tar">>),
       entries |-> << StreamXml(1, a), StreamXml(2, b), StreamXml(3, c) >>] :
        a \in {"no", "read"}, b \in {"no", "read"}, c \in {"no", "read"} }
      \cup
    { [kind |-> "archive", path |-> Path(NewFiles, <<"I20030327", ".tar", ".gz">>),
       entries |-> << StreamZip(1, a, "no"), StreamXml(2, b), StreamZip(3, "no", c) >>] :
        a \in Failures, b \in {"no", "read"}, c \in Failures }

StreamInit ==
    /\ cfg = DefaultConfig
    /\ SinkStart
    /\ PipeStart
    /\ inp \in StreamInputs
    /\ out = NoOutput

\* the worker calls the extractor of the archive and counts
StreamExtract ==
    /\ out = NoOutput
    /\ out' = [op |-> "extract", err |-> ExtractFails(inp),
               patents |-> ExtractedFrom(inp), done |-> FALSE]
    /\ stats' = IF ExtractFails(inp) THEN [stats EXCEPT !.Errors = @ + 1]
                ELSE [stats EXCEPT !.PatentsExtracted = @ + Len(ExtractedFrom(inp))]
    /\ UNCHANGED <<cfg, sinkVars, inp, fs, now, processedLog, processedArchives, archives,
                   sent, workChan, workClosed, resultChan, resultClosed, wk, insDone,
                   phase, run, faults, hist>>

\* and goes on to markProcessed, with or without an error
StreamMark ==
    /\ out.op = "extract" /\ ~out.done
    /\ out' = [out EXCEPT !.done = TRUE]
    /\ processedArchives' = processedArchives \cup {inp.path}
    /\ processedLog' = processedLog \cup {inp.path}
    /\ stats' = [stats EXCEPT !.ArchivesProcessed = @ + 1]
    /\ UNCHANGED <<cfg, sinkVars, inp, fs, now, archives, sent, workChan, workClosed,
                   resultChan, resultClosed, wk, insDone, phase, run, faults, hist>>

StreamNext == StreamExtract \/ StreamMark

SpecStream == StreamInit /\ [][StreamNext]_vars

-----------------------------------------------------------------------------
(* The paragraph numbers of synthesizeDescription *)

\* A tagged paragraph of the description block: the number its id attribute
\* ends with and the number of its num attribute (NULL when there is no such
\* attribute), and whether cleanXMLText leaves any text of it
AttrValues == {NULL, Some(0), Some(2), Some(5)}
Paragraphs ==
    { [id |-> i, num |-> n, empty |-> e] : i \in AttrValues, n \in {NULL, Some(3)},
                                          e \in BOOLEAN }
DescriptionBlocks ==
    UNION { [1..len -> Paragraphs] : len \in 1..MaxParas }

\* the number of the paragraph at place seq: its id, else its num, and seq
\* when that gives 0
ParagraphNumber(seg, seq) ==
    LET n == IF ~IsNull(seg.id) THEN seg.id[1]
             ELSE IF ~IsNull(seg.num) THEN seg.num[1]
             ELSE 0
    IN  IF n = 0 THEN seq ELSE n
\* the bracketed numbers of the output: one per paragraph that has text
BracketNumbers(paraList) ==
    LET kept == SelectSeq([i \in DOMAIN paraList |-> i], LAMBDA i : ~paraList[i].empty)
    IN  [k \in DOMAIN kept |-> ParagraphNumber(paraList[kept[k]], kept[k])]

NumberInit ==
    /\ cfg = DefaultConfig
    /\ SinkStart
    /\ PipeStart
    /\ inp \in { [kind |-> "description", paras |-> b] : b \in DescriptionBlocks }
    /\ out = NoOutput

\* parseXML calls synthesizeDescription on the document
Synthesize ==
    /\ inp.kind = "description"
    /\ out = NoOutput
    /\ out' = [op |-> "describe", numbers |-> BracketNumbers(inp.paras)]
    /\ UNCHANGED <<cfg, sinkVars, pipeVars, inp>>

SpecNumbers == NumberInit /\ [][Synthesize]_vars

-----------------------------------------------------------------------------
(* Claims about the records the parsers emit *)

\* the publication records and the grant records handed to the sink
Emitted == IF out.op = "extract" THEN out.patents ELSE << >>
EmittedGrants == IF out.op = "grants" THEN out.grants ELSE << >>

\* C15: every record emitted by parseXML, parseAlternateXML or the grant
\* converter has a non-empty identifier (pub_number, grant_number); a
\* document without one yields no record.
C15_NonEmptyPubId ==
    /\ \A i \in DOMAIN Emitted : Emitted[i].PubNumber # << >>
    /\ \A i \in DOMAIN EmittedGrants : EmittedGrants[i].GrantNumber # << >>

\* C16: in every container layout the raw_xml_path of an emitted record
\* starts with the base name of the archive being processed, then "/".
C16_PathHasArchivePrefix ==
    /\ \A i \in DOMAIN Emitted :
          HasPrefix(Emitted[i].RawXMLPath, inp.path.name \o <<"/">>)
    /\ \A i \in DOMAIN EmittedGrants :
          HasPrefix(EmittedGrants[i].RawXMLSource, inp.path.name \o <<"/">>)

\* a record came out of a nested ZIP inside a TAR that lies in the staging directory
C16_Witness ==
    /\ Emitted # << >>
    /\ inp.path.dir = NewFiles
    /\ inp.entries[1].files # << >>
    /\ Emitted[1].RawXMLPath =
          <<"I20030327", ".tar", ".gz", "/", "US", "20030050000", "A1", ".xml">>

\* C17: in every record emitted by either parser path the title has at most
\* 500 bytes, the abstract at most 5000, the combined description at most
\* 150000, and there are at most 50 claims, 50 inventors and 50 assignees.
C17_FieldLimits ==
    \A i \in DOMAIN Emitted :
       /\ Bytes(Emitted[i].Title) <= MaxTitle
       /\ Bytes(Emitted[i].AbstractText) <= MaxAbstract
       /\ Bytes(Emitted[i].DescriptionText) <= MaxDescription
       /\ Len(Emitted[i].Claims) <= MaxListed
       /\ Len(Emitted[i].Inventors) <= MaxListed
       /\ Len(Emitted[i].Assignees) <= MaxListed

\* the text fields of a publication record
TextsOf(p) ==
    { p.Title, p.AbstractText, p.DescriptionText }
      \cup { p.Claims[i] : i \in DOMAIN p.Claims }
      \cup { p.Inventors[i] : i \in DOMAIN p.Inventors }
      \cup { p.Assignees[i] : i \in DOMAIN p.Assignees }

\* C18: no text field of an emitted record (title, abstract, claims,
\* description, inventor and assignee names) contains the byte 0.
C18_NoNulByte ==
    /\ \A i \in DOMAIN Emitted : \A t \in TextsOf(Emitted[i]) : ~HasNul(t)
    /\ \A i \in DOMAIN EmittedGrants :
          ~HasNul(EmittedGrants[i].Title) /\ ~HasNul(EmittedGrants[i].AbstractText)

\* C19: the application number returned by extractAppNumber, in the
\* publication extractor and in the backfill tool, is made of decimal digits
\* only, or is empty.
C19_AppNumberDigits ==
    /\ \A i \in DOMAIN Emitted : AllDigits(Emitted[i].ApplicationNumber)
    /\ out.op = "backfill" => AllDigits(out.number)

\* the backfill tool has read "09/123456" and returned the eight digits
C19_Witness ==
    /\ out.op = "backfill"
    /\ \E i \in DOMAIN BackfillDoc(inp).appRef : ~AllDigits(BackfillDoc(inp).appRef[i])
    /\ out.number = Str(Digit, 8)

-----------------------------------------------------------------------------
(* Termination of Run *)

\* a worker has received the archive and called its extractor
Taken(p) == p \in hist.failed \/ Parsed(p)
\* the sender waits at a full workChan; a worker waits at a full resultChan
SenderBlocked == phase = "running" /\ sent < Len(archives) /\ Len(workChan) = ChanCap
WorkerBlocked(w) == phase = "running" /\ wk[w].pc = "send" /\ Len(resultChan) = ChanCap
\* Run has returned: every archive was taken, every batch went through
\* insertPatents, the queues are empty and every goroutine has left its loop
RunComplete ==
    /\ phase = "done"
    /\ sent = Len(archives) /\ workChan = << >> /\ workClosed
    /\ \A i \in DOMAIN archives : Taken(archives[i])
    /\ resultChan = << >> /\ resultClosed
    /\ hist.pending = {} /\ tx = NoTx
    /\ \A w \in Workers : wk[w].pc = "exit"
    /\ insDone
    /\ ~SenderBlocked /\ \A w \in Workers : ~WorkerBlocked(w)

\* C20: with the goroutines scheduled and every call of the inserter
\* returning, Run terminates for every list of archives, also one longer than
\* the queues: every archive is taken by a worker, every batch sent goes
\* through the inserter, and no goroutine stays blocked at a queue.
C20_RunTerminates == <>RunComplete

\* Run has returned after a list longer than the queue, with records stored
C20_Witness ==
    /\ RunComplete
    /\ Len(archives) > ChanCap
    /\ stats.PatentsInserted > 0

-----------------------------------------------------------------------------
(* Claims about discovery and relocation *)

\* worker w leaves its receive with an archive
Receives(w) == wk[w].pc = "recv" /\ wk'[w].pc \in {"send", "mark"}
\* the list of getArchives names no path twice
EmittedOnce(list) == \A i, j \in DOMAIN list : list[i] = list[j] => i = j

\* C21: in one run discovery emits each archive file at most once, and no
\* worker receives an archive that a worker has received before.
C21_EachArchiveOnce ==
    [][ /\ EmittedOnce(archives')
        /\ \A w \in Workers : Receives(w) => ~Taken(wk'[w].path) ]_vars

-----------------------------------------------------------------------------
(* Claims about the merge of two archives *)

\* the table after the batches of two files were committed in this order
MergedInOrder(first, second) ==
    LET a == ExecArgs(Records(first)[1])
        b == ExecArgs(Records(second)[1])
    IN  Upsert(Upsert({}, a, FALSE), b, FALSE)
\* the batches of both archives, which hold the same pub_number, are committed
BothCommitted == {"good1", "good2"} \subseteq hist.ingested

\* C22: when two archives processed by different workers hold a record with
\* the same pub_number, the stored row is what either order of the two
\* commits gives.
C22_CommitOrderIrrelevant ==
    BothCommitted =>
        /\ store = MergedInOrder("good1", "good2")
        /\ store = MergedInOrder("good2", "good1")

\* C23: relocating a staged archive never replaces a file that is already
\* in the originals directory: every file of FilesRoot is still there, with
\* its content, after every step.
C23_NeverOverwrites == [][\A f \in fs : f.dir = Root => f \in fs']_vars

-----------------------------------------------------------------------------
(* Claims about archives with unreadable entries *)

\* the XML files of an archive that can be read: entries of the archive, and
\* files of its nested ZIPs that can be opened and read
ReadableFiles(arc) ==
    { f \in { arc.entries[i] : i \in DOMAIN arc.entries } : f.files = << >> /\ ~Unreadable(f) }
      \cup UNION { { z.files[k] : k \in { n \in DOMAIN z.files : ~Unreadable(z.files[n]) } } :
                     z \in { e \in { arc.entries[i] : i \in DOMAIN arc.entries } :
                               e.files # << >> /\ ~Unreadable(e) } }
\* the records of those files
ReadableRecords(arc) ==
    UNION { { parseXML(f.doc, XmlPathOf(arc.path.name, f.name))[k] :
                k \in DOMAIN parseXML(f.doc, XmlPathOf(arc.path.name, f.name)) } :
              f \in ReadableFiles(arc) }
SomeUnreadable(arc) ==
    \E i \in DOMAIN arc.entries :
        Unreadable(arc.entries[i])
          \/ \E k \in DOMAIN arc.entries[i].files : Unreadable(arc.entries[i].files[k])

\* C24: when an inner entry of a ZIP or TAR archive cannot be opened or
\* read, the records of every readable entry are still returned, and the
\* archive is marked processed when the worker has finished it.
C24_OnlyFailingEntrySkipped ==
    (out.op = "extract" /\ SomeUnreadable(inp)) =>
        /\ ReadableRecords(inp) \subseteq { out.patents[i] : i \in DOMAIN out.patents }
        /\ out.done => inp.path \in processedArchives

-----------------------------------------------------------------------------
(* Claims about the choice of the publication number *)

\* the archive is a ZIP with one XML file: its document and its synthetic path
OneDocument == inp.kind = "archive" /\ Len(inp.entries) = 1 /\ inp.entries[1].files = << >>
TheDoc == inp.entries[1].doc
ThePath == XmlPathOf(inp.path.name, inp.entries[1].name)
\* the three sources of the number: the path, the decoded publication
\* reference, the first <doc-number> the regular expression finds
FromPath == PathNumber(ThePath)
FromStructure == IF TheDoc.wellFormed THEN CharData(TheDoc.pubDocNumber) ELSE << >>
FromRegex == TrimSpaceRuns(FirstThat(DocNumbers(TheDoc), CapturedIn(DocNumbers(TheDoc))))
Extracts == out.op = "extract" /\ OneDocument

\* C28: the number of the record is the first of: the US(digits) of the
\* path, the decoded doc-number, the first <doc-number> found by regular
\* expression; the record is dropped only when there is none of the three.
C28_PubIdPriority ==
    Extracts =>
        IF FromPath # << >> THEN Len(Emitted) = 1 /\ Emitted[1].PubNumber = FromPath
        ELSE IF FromStructure # << >>
             THEN Len(Emitted) = 1 /\ Emitted[1].PubNumber = FromStructure
        ELSE IF FromRegex # << >>
             THEN Len(Emitted) = 1 /\ Emitted[1].PubNumber = FromRegex
        ELSE Emitted = << >>

\* C29: parseXML gives the document to the alternate parser when decoding
\* fails and when decoding yields no number, so a document is dropped only
\* when the alternate parser finds no number either.
C29_FallsBackWhenNoId ==
    (Extracts /\ Emitted = << >>) => IsNull(parseAlternateXML(TheDoc, ThePath))

-----------------------------------------------------------------------------
(* Claims about the numbering of the description *)

\* the first id or num attribute of the block, if any
FirstAttr(paraList) ==
    LET with == { i \in DOMAIN paraList :
                    ~IsNull(paraList[i].id) \/ ~IsNull(paraList[i].num) }
        i == CHOOSE i \in with : \A j \in with : i <= j
    IN  IF with = {} THEN NULL
        ELSE IF ~IsNull(paraList[i].id) THEN paraList[i].id ELSE paraList[i].num

\* C30: the bracketed numbers of a synthesized description are strictly
\* increasing in output order and start from the first id or num attribute
\* of the block, or from 1.
C30_NumbersIncrease ==
    out.op = "describe" =>
        /\ \A i, j \in DOMAIN out.numbers : i < j => out.numbers[i] < out.numbers[j]
        /\ out.numbers # << >> => Some(out.numbers[1]) \in {Some(1), FirstAttr(inp.paras)}

-----------------------------------------------------------------------------
(* Claims about getArchives *)

\* the step of Run in which getArchives is called
Discovers == phase = "new" /\ phase' = "running"
\* a priority window is configured
Windowed == cfg.PriorityMinYear > 0 /\ cfg.PriorityMinYear <= cfg.PriorityMaxYear
\* two lists hold the same paths, each as often
SameBag(a, b) ==
    /\ Len(a) = Len(b)
    /\ \A i \in DOMAIN a :
          Cardinality({ j \in DOMAIN a : a[j] = a[i] })
            = Cardinality({ j \in DOMAIN b : b[j] = a[i] })
\* the years of the window and the order of the base names
InYears(q) == yearOf(q.name) \in cfg.PriorityMinYear..cfg.PriorityMaxYear
PriorityOrder(list) ==
    \A i, j \in DOMAIN list : i < j =>
       /\ InYears(list[j]) => InYears(list[i])
       /\ InYears(list[i]) /\ InYears(list[j]) =>
             NameRank(list[i].name) >= NameRank(list[j].name)
       /\ ~InYears(list[i]) /\ ~InYears(list[j]) =>
             NameRank(list[i].name) <= NameRank(list[j].name)

\* C25: with a priority window, getArchives returns a permutation of the
\* candidates it has filtered, the archives of the window first in
\* descending order of base name, the others after them in ascending order.
C25_PriorityFirst ==
    [][(Discovers /\ Windowed) =>
          /\ SameBag(archives', Scanned(fs, processedArchives, now, {}).archives)
          /\ PriorityOrder(archives')]_vars

\* a recursive scan with the window 2004-2004 has put the two archives of
\* 2004 first, the later one before the earlier, and then the two others
C25_Witness ==
    /\ phase = "running" /\ Windowed
    /\ archives = << Path(NewFiles, NamesSorted[6]), Path(Root, NamesSorted[1]),
                     Path(Root, NamesSorted[3]), Path(NewFiles, NamesSorted[7]) >>

\* a file that has left its place is a staged file of the processed set, now
\* in FilesRoot under its base name or under a stamped name
Relocated(f, before, after, processed) ==
    /\ f.dir = NewFiles
    /\ Path(f.dir, f.name) \in processed
    /\ \E g \in after \ before :
          /\ g.dir = Root /\ g.id = f.id
          /\ g.name = f.name \/ \E t \in 1..MaxClock : g.name = Stamped(f.name, t)

\* C26: getArchives changes neither the processed set nor the tables; it
\* changes the files only in a staging scan without reprocess, and only by
\* relocating staged files that are in the processed set.
C26_ScanFrame ==
    [][Discovers =>
          /\ processedArchives' = processedArchives /\ processedLog' = processedLog
          /\ store' = store /\ grants' = grants
          /\ fs' # fs => cfg.ScanNewOnly /\ ~cfg.ReprocessAll
          /\ \A f \in fs \ fs' : Relocated(f, fs, fs', processedArchives)
          /\ \A g \in fs' \ fs : \E f \in fs \ fs' : g.id = f.id /\ g.dir = Root]_vars

\* getArchives has just moved the processed staged archive to a stamped
\* name, and has left the unprocessed one in place
C26_Witness ==
    /\ phase = "running" /\ sent = 0
    /\ Path(NewFiles, NamesSorted[2]) \in processedArchives
    /\ ~Exists(fs, Path(NewFiles, NamesSorted[2]))
    /\ \E t \in 1..MaxClock : Exists(fs, Path(Root, Stamped(NamesSorted[2], t)))
    /\ Exists(fs, Path(NewFiles, NamesSorted[3]))
    /\ archives = << Path(NewFiles, NamesSorted[3]) >>

-----------------------------------------------------------------------------
(* The grant extractor's process: main, processArchives, processArchive *)

\* the names under grantCfg.FilesRoot in the order of filepath.Walk
GrantNames == << <<"ipa", "250107", ".zip">>, <<"ipg", "250107", ".zip">>,
                 <<"ipg", "250114", ".zip">> >>
\* what a file is: not a ZIP, a ZIP without entries, a ZIP whose first entry
\* cannot be opened, cannot be read to its end or is not XML, and a ZIP
\* whose first entry holds one or two grants
GrantKinds == {"notzip", "empty", "noentry", "short", "malformed", "one", "two"}
TheGrant(g) == CHOOSE x \in SampleGrants : x.GrantNumber = g /\ x.Year = UnknownYear
GrantsIn(kind) ==
    IF kind = "one" THEN << TheGrant("11000001") >>
    ELSE IF kind = "two" THEN << TheGrant("11000001"), TheGrant("11000002") >>
    ELSE << >>
GrantStats == [TotalFiles |-> 0, FilesProcessed |-> 0, FilesSkipped |-> 0, FilesFailed |-> 0,
               GrantsExtracted |-> 0, GrantsInserted |-> 0, GrantsFailed |-> 0]
GrantIdle(pc) == [pc |-> pc, path |-> NoPath, grants |-> << >>, i |-> 1,
                  inserted |-> 0, failed |-> 0]
GrantHist == [attempts |-> [n \in { Path(Root, GrantNames[i]) : i \in DOMAIN GrantNames } |-> 0],
              failed |-> {},
              before |-> {}, offered |-> {}]

\* findGrantArchives: the files named ipg*.zip, in the order of the walk
findGrantArchives(files) ==
    LET hit(i) == /\ Exists(files, Path(Root, GrantNames[i]))
                  /\ HasPrefix(GrantNames[i], <<"ipg">>)
                  /\ HasSuffix(GrantNames[i], <<".zip">>)
        RECURSIVE Walk(_)
        Walk(i) == IF i > Len(GrantNames) THEN << >>
                   ELSE (IF hit(i) THEN << Path(Root, GrantNames[i]) >> ELSE << >>)
                          \o Walk(i + 1)
    IN  Walk(1)

\* the list main passes to processArchives: with -test, the first file only
GrantList(files, testMode) ==
    LET found == findGrantArchives(files)
    IN  IF testMode /\ Len(found) > 0 THEN SubSeq(found, 1, 1) ELSE found

\* main up to the call of processArchives: the log is loaded, or a warning
\* is printed and the set stays empty
GrantMain(loaded) ==
    LET found == findGrantArchives(fs)
    IN  /\ processedArchives' = (IF loaded THEN processedLog ELSE {})
        /\ archives' = GrantList(fs, cfg.testMode)
        /\ stats' = [GrantStats EXCEPT !.TotalFiles = Len(found)]
        /\ sent' = 0
        /\ workChan' = << >>
        /\ workClosed' = FALSE
        /\ wk' = [w \in Workers |-> GrantIdle("recv")]
        /\ phase' = "running"

GrantInit ==
    /\ cfg \in { [testMode |-> t, Workers |-> NumWorkers] : t \in BOOLEAN }
    /\ SinkStart
    /\ NoParse
    /\ \E k1, k2 \in GrantKinds :
          fs = { File(Root, GrantNames[1], "one"), File(Root, GrantNames[2], k1),
                 File(Root, GrantNames[3], k2) }
    /\ processedLog = {}
    /\ processedArchives = {}
    /\ archives = GrantList(fs, cfg.testMode)
    /\ stats = [GrantStats EXCEPT !.TotalFiles = Len(findGrantArchives(fs))]
    /\ sent = 0 /\ workChan = << >> /\ workClosed = FALSE
    /\ wk = [w \in Workers |-> GrantIdle("recv")]
    /\ phase = "running"
    /\ resultChan = << >> /\ resultClosed = FALSE /\ insDone = FALSE
    /\ now = 1 /\ run = 1 /\ faults = 0
    /\ hist = GrantHist

\* processArchives, the feeding loop: a processed path is counted and
\* skipped, another one is put on archiveChan when there is room
GrantFeed ==
    /\ phase = "running" /\ sent < Len(archives)
    /\ LET p == archives[sent + 1]
       IN  IF p \in processedArchives
           THEN /\ stats' = [stats EXCEPT !.FilesSkipped = @ + 1]
                /\ UNCHANGED <<workChan, hist>>
           ELSE /\ Len(workChan) < cfg.Workers
                /\ workChan' = Append(workChan, p)
                /\ hist' = [hist EXCEPT !.offered = @ \cup {p}]
                /\ UNCHANGED stats
    /\ sent' = sent + 1
    /\ UNCHANGED <<cfg, sinkVars, parseVars, fs, now, processedLog, processedArchives,
                   archives, workClosed, resultChan, resultClosed, wk, insDone, phase,
                   run, faults>>

\* close(archiveChan)
GrantClose ==
    /\ phase = "running" /\ sent = Len(archives) /\ ~workClosed
    /\ workClosed' = TRUE
    /\ UNCHANGED <<cfg, sinkVars, parseVars, fs, now, processedLog, processedArchives,
                   archives, sent, workChan, resultChan, resultClosed, wk, insDone, phase,
                   stats, run, faults, hist>>

\* a worker takes a path from archiveChan
GrantRecv(w) ==
    /\ wk[w].pc = "recv" /\ workChan # << >>
    /\ wk' = [wk EXCEPT ![w] = [GrantIdle("open") EXCEPT !.path = Head(workChan)]]
    /\ workChan' = Tail(workChan)
    /\ UNCHANGED <<cfg, sinkVars, parseVars, fs, now, processedLog, processedArchives,
                   archives, sent, workClosed, resultChan, resultClosed, insDone, phase,
                   stats, run, faults, hist>>

\* the range over archiveChan ends
GrantExit(w) ==
    /\ wk[w].pc = "recv" /\ workChan = << >> /\ workClosed
    /\ wk' = [wk EXCEPT ![w] = GrantIdle("exit")]
    /\ UNCHANGED <<cfg, sinkVars, parseVars, fs, now, processedLog, processedArchives,
                   archives, sent, workChan, workClosed, resultChan, resultClosed, insDone,
                   phase, stats, run, faults, hist>>

\* (mutant) an archive that fails is marked processed all the same
GrantFailMarks(w) ==
    /\ wk[w].pc = "open"
    /\ IdAt(fs, wk[w].path) \notin {"one", "two"}
    /\ stats' = [stats EXCEPT !.FilesFailed = @ + 1]
    /\ hist' = [hist EXCEPT !.failed = @ \cup {wk[w].path}]
    /\ processedArchives' = processedArchives \cup {wk[w].path}
    /\ processedLog' = processedLog \cup {wk[w].path}
    /\ wk' = [wk EXCEPT ![w] = GrantIdle("recv")]
    /\ UNCHANGED <<cfg, sinkVars, parseVars, fs, now, archives, sent, workChan, workClosed,
                   resultChan, resultClosed, insDone, phase, run, faults>>

\* processArchive returns early: zip.OpenReader fails (for what the file is,
\* or for the operating system), the archive has no entry, its first entry
\* cannot be opened or read, or parseGrants returns an error
GrantFail(w) ==
    /\ wk[w].pc = "open"
    /\ \/ IdAt(fs, wk[w].path) \notin {"one", "two"} /\ UNCHANGED faults
       \/ faults < MaxFaults /\ faults' = faults + 1
    /\ stats' = [stats EXCEPT !.FilesFailed = @ + 1]
    /\ hist' = [hist EXCEPT !.failed = @ \cup {wk[w].path}]
    /\ wk' = [wk EXCEPT ![w] = GrantIdle("recv")]
    /\ UNCHANGED <<cfg, sinkVars, parseVars, fs, now, processedLog, processedArchives,
                   archives, sent, workChan, workClosed, resultChan, resultClosed, insDone,
                   phase, run>>

\* processArchive has opened, read and parsed the first entry
GrantParsed(w) ==
    /\ wk[w].pc = "open"
    /\ IdAt(fs, wk[w].path) \in {"one", "two"}
    /\ LET found == GrantsIn(IdAt(fs, wk[w].path))
       IN  /\ stats' = [stats EXCEPT !.GrantsExtracted = @ + Len(found)]
           /\ wk' = [wk EXCEPT ![w].pc = "insert", ![w].grants = found]
    /\ UNCHANGED <<cfg, sinkVars, parseVars, fs, now, processedLog, processedArchives,
                   archives, sent, workChan, workClosed, resultChan, resultClosed, insDone,
                   phase, run, faults, hist>>

\* insertGrants, batch after batch: insertBatch executes the INSERT of the
\* next grant and counts it as inserted or as failed
GrantInsert(w) ==
    /\ wk[w].pc = "insert" /\ wk[w].i <= Len(wk[w].grants)
    /\ \/ /\ GrantStored(wk[w].grants[wk[w].i])
          /\ wk' = [wk EXCEPT ![w].i = @ + 1, ![w].inserted = @ + 1]
       \/ /\ UNCHANGED <<grants, firstGrant, grantTitle>>
          /\ wk' = [wk EXCEPT ![w].i = @ + 1, ![w].failed = @ + 1]
    /\ hist' = [hist EXCEPT !.attempts[wk[w].path] = @ + 1]
    /\ UNCHANGED <<cfg, store, tx, firstSeen, everForced, parseVars, fs, now, processedLog,
                   processedArchives, archives, sent, workChan, workClosed, resultChan,
                   resultClosed, insDone, phase, stats, run, faults>>

\* insertGrants has returned: the counters, markProcessed (the map, then the
\* line in the log, which may fail with a warning), FilesProcessed
GrantMark(w) ==
    /\ wk[w].pc = "insert" /\ wk[w].i > Len(wk[w].grants)
    /\ processedArchives' = processedArchives \cup {wk[w].path}
    /\ \/ processedLog' = processedLog \cup {wk[w].path} /\ UNCHANGED faults
       \/ faults < MaxFaults /\ faults' = faults + 1 /\ UNCHANGED processedLog
    /\ stats' = [stats EXCEPT !.GrantsInserted = @ + wk[w].inserted,
                              !.GrantsFailed = @ + wk[w].failed,
                              !.FilesProcessed = @ + 1]
    /\ wk' = [wk EXCEPT ![w] = GrantIdle("recv")]
    /\ UNCHANGED <<cfg, sinkVars, parseVars, fs, now, archives, sent, workChan, workClosed,
                   resultChan, resultClosed, insDone, phase, run, hist>>

\* wg.Wait() returns, main prints the statistics and the process ends
GrantFinish ==
    /\ phase = "running" /\ workClosed
    /\ \A w \in Workers : wk[w].pc = "exit"
    /\ phase' = "done"
    /\ UNCHANGED <<cfg, sinkVars, parseVars, fs, now, processedLog, processedArchives,
                   archives, sent, workChan, workClosed, resultChan, resultClosed, wk,
                   insDone, stats, run, faults, hist>>

\* the program is started again over the same files
GrantRestart ==
    /\ phase = "done" /\ run < MaxRuns
    /\ run' = run + 1
    /\ \/ GrantMain(TRUE) /\ UNCHANGED faults
       \/ faults < MaxFaults /\ faults' = faults + 1 /\ GrantMain(FALSE)
    /\ hist' = [GrantHist EXCEPT !.before = hist.failed]
    /\ UNCHANGED <<cfg, sinkVars, parseVars, fs, now, processedLog, resultChan,
                   resultClosed, insDone>>

GrantNext ==
    \/ GrantFeed
    \/ GrantClose
    \/ \E w \in Workers : GrantRecv(w)
    \/ \E w \in Workers : GrantExit(w)
    \/ \E w \in Workers : GrantFail(w)
    \/ \E w \in Workers : GrantParsed(w)
    \/ \E w \in Workers : GrantInsert(w)
    \/ \E w \in Workers : GrantMark(w)
    \/ GrantFinish
    \/ GrantRestart

SpecGrants == GrantInit /\ [][GrantNext]_vars

-----------------------------------------------------------------------------
(* Claims about the grant extractor's processed set *)

\* a step of the running process, not a new start
SameRun == run' = run
\* the worker that has p in hand has parsed it and has executed an INSERT for
\* every grant it extracted
InsertsAttempted(p) ==
    /\ IdAt(fs, p) \in {"one", "two"}
    /\ p \notin hist.failed
    /\ hist.attempts[p] = Len(GrantsIn(IdAt(fs, p)))
    /\ \E w \in Workers : wk[w].path = p /\ wk[w].pc = "insert"
\* a path enters the processed set or the log only after that
MarkedAfterInserts ==
    \A p \in (processedArchives' \ processedArchives) \cup (processedLog' \ processedLog) :
        InsertsAttempted(p)
\* an early return of processArchive counts the file and marks nothing
FailureCounted ==
    hist'.failed # hist.failed =>
        /\ stats'.FilesFailed = stats.FilesFailed + 1
        /\ processedArchives' = processedArchives /\ processedLog' = processedLog
\* the files that failed are the ones counted, and none of them is in the set
FailedUnmarked ==
    /\ stats.FilesFailed = Cardinality(hist.failed)
    /\ hist.failed \cap processedArchives = {}
\* the feeding loop of this run has put on archiveChan every file that failed
\* in the run before and that no run has written to the log
FailedOfferedAgain ==
    (run > 1 /\ sent = Len(archives)) =>
        \A p \in hist.before \ processedLog : p \in hist.offered
        
\* C27: processArchive puts an archive in the grant processed set only after
\* it has opened, read and parsed it without error and has attempted an INSERT
\* for every grant extracted; an archive that fails to open, is empty, or
\* fails to be read or parsed is counted in FilesFailed, is not marked, and is
\* offered again by the next run.
C27_MarkedOnlyAfterInserts ==
    [][/\ SameRun => MarkedAfterInserts /\ FailureCounted
       /\ FailedUnmarked'
       /\ FailedOfferedAgain']_vars

\* in the second run: an archive whose opening failed in the first run has now
\* been marked after its two INSERTs, and the archive that is no ZIP has
\* failed in both runs
C27_Witness ==
    /\ run = 2
    /\ \E p, q \in hist.before :
          /\ p # q
          /\ p \in processedArchives /\ p \in processedLog
          /\ hist.attempts[p] = 2
          /\ q \in hist.failed /\ IdAt(fs, q) = "notzip"
    /\ stats.FilesFailed = 1 /\ stats.FilesProcessed = 1

\* C37: when the grant extractor finishes, FilesProcessed + FilesSkipped +
\* FilesFailed = TotalFiles and GrantsInserted + GrantsFailed =
\* GrantsExtracted, with -test and without, for any interleaving.
C37_GrantCountersBalance ==
    phase = "done" =>
        /\ stats.FilesProcessed + stats.FilesSkipped + stats.FilesFailed = stats.TotalFiles
        /\ stats.GrantsInserted + stats.GrantsFailed = stats.GrantsExtracted

-----------------------------------------------------------------------------
(* Claims about the counters of Run *)

\* C36: in every reachable state of Run, PatentsInserted <= PatentsExtracted,
\* and when Run has returned, ArchivesProcessed is the number of paths that
\* getArchives returned.
C36_CountersConsistent ==
    /\ stats.PatentsInserted <= stats.PatentsExtracted
    /\ phase = "done" => stats.ArchivesProcessed = Len(archives)

\* Run has returned after three archives, one of them an error, with fewer
\* records inserted than extracted
C36_Witness ==
    /\ phase = "done"
    /\ Len(archives) = 3 /\ stats.ArchivesProcessed = 3
    /\ stats.Errors > 0
    /\ 0 < stats.PatentsInserted /\ stats.PatentsInserted < stats.PatentsExtracted

-----------------------------------------------------------------------------
(* Claims about the description of a record without description block *)

\* the record has no description block: a combined text that starts with
\* claims has no DESCRIPTION header, one without claims is empty
NoDescriptionBlock(p) ==
    IF Len(p.Claims) > 0 THEN IndexOf(p.DescriptionText, <<"DESCRIPTION:">>) = -1
    ELSE p.DescriptionText = EmptyText
\* the row that the Exec of a record left in a table that had none for it
FreshRow(p) == CHOOSE r \in tx'.work : r.pub_number = p.PubNumber

\* C31: a record with at least one claim and no description block is stored
\* with an empty description_body and with its claims in claims_text; a
\* record with neither claims nor description is stored with an empty, not
\* null, description_text.
C31_EmptyDescriptionBody ==
    [][(ExecStep /\ tx.work = {}) =>
          LET p == tx.patents[tx.i]
          IN  /\ \E r \in tx'.work : r.pub_number = p.PubNumber
              /\ (Len(p.Claims) > 0 /\ NoDescriptionBlock(p)) =>
                    /\ FreshRow(p).description_body = Some(EmptyText)
                    /\ FreshRow(p).claims_text = Some(p.Claims[1])
              /\ (Len(p.Claims) = 0 /\ NoDescriptionBlock(p)) =>
                    FreshRow(p).description_text = Some(EmptyText)]_vars

-----------------------------------------------------------------------------
(* Claims about the application number *)

\* the digits of the first doc-number inside application-reference, or, when
\* that block has none, of the first one inside domestic-filing-data
FirstInBlock(doc) ==
    IF doc.appRef # << >> THEN KeepDigits(doc.appRef[1])
    ELSE IF doc.domestic # << >> THEN KeepDigits(doc.domestic[1])
    ELSE << >>

\* C32: the application number is the digits of the first doc-number inside
\* the application-reference block, else of the first one inside
\* domestic-filing-data, and extractAppNumber of the publication extractor
\* and extractAppNumber of the backfill return the same value for every
\* document.
C32_SameAppNumber ==
    out.op = "backfill" =>
        /\ out.number = FirstInBlock(BackfillDoc(inp))
        /\ extractAppNumber(BackfillDoc(inp)) = out.number

-----------------------------------------------------------------------------
(* The dates and the year of parseXML and parseAlternateXML *)

\* publication numbers as digits: one that starts with its year, one that
\* holds 20dd further on, one without 20dd, and two that start with 21
YearNumbers == { <<2, 0, 0, 3, 0, 0, 5>>, <<7, 2, 0, 0, 4, 1, 2>>, <<1, 9, 9, 9, 0, 0, 1>>,
                 <<2, 1, 0, 0, 0, 0, 1>>, <<2, 1, 2, 0, 1, 5, 0>> }
\* the text of a date element: absent or empty, one of the four layouts of
\* parseDate, eight digits that are no date, or another text
DateForms == {"empty", "20060102", "2006-01-02", "01/02/2006", "2006", "digits", "other"}
DateYears == {2004}
DateTexts == { [form |-> f, y |-> y] : f \in DateForms, y \in DateYears }
YearDocs ==
    { [wellFormed |-> wf, number |-> n, date |-> d, documentDate |-> dd] :
        wf \in BOOLEAN, n \in YearNumbers, d \in DateTexts,
        dd \in { t \in DateTexts : t.form \in {"empty", "20060102", "digits", "2006-01-02"} } }

Number4(d, i) == 1000 * d[i] + 100 * d[i + 1] + 10 * d[i + 2] + d[i + 3]
\* parseDate: the year of the time parsed, or an error
parseDate(s) ==
    IF s.form \in {"20060102", "2006-01-02", "01/02/2006", "2006"} THEN Some(s.y) ELSE NULL
\* the first match of (20\d{2}) in the publication number, or 0
FirstTwenty(d) ==
    LET hits == { i \in 1..(Len(d) - 3) : d[i] = 2 /\ d[i + 1] = 0 }
    IN  IF hits = {} THEN 0 ELSE Number4(d, CHOOSE i \in hits : \A j \in hits : i <= j)
\* parseXML: PubDate and Year come from the date of publication-reference
StructuredDates(doc) ==
    LET t == IF doc.date.form # "empty" THEN parseDate(doc.date) ELSE NULL
    IN  [PubDate |-> t, Year |-> IF IsNull(t) THEN 0 ELSE t[1]]
\* parseAlternateXML: Year from 20dd in the publication number, and only
\* when that leaves 0, PubDate and Year from <document-date> of eight digits
AlternateDates(doc) ==
    LET y == FirstTwenty(doc.number)
        year == IF y >= 2000 /\ y <= 2100 THEN y ELSE 0
        t == IF doc.documentDate.form \in {"20060102", "digits"}
             THEN parseDate(doc.documentDate) ELSE NULL
    IN  IF year = 0 /\ ~IsNull(t) THEN [PubDate |-> t, Year |-> t[1]]
        ELSE [PubDate |-> NULL, Year |-> year]

YearInit ==
    /\ cfg = DefaultConfig
    /\ SinkStart
    /\ PipeStart
    /\ inp \in YearDocs
    /\ out = NoOutput

\* parseXML decodes the document, or hands it to parseAlternateXML
ParseDates ==
    /\ out = NoOutput
    /\ out' = [op |-> "dates", alternate |-> ~inp.wellFormed,
               patent |-> IF inp.wellFormed THEN StructuredDates(inp) ELSE AlternateDates(inp)]
    /\ UNCHANGED <<cfg, sinkVars, pipeVars, inp>>

SpecYear == YearInit /\ [][ParseDates]_vars

\* C33: the year of an emitted record is the year of its pub_date when a
\* pub_date was parsed; otherwise it is the first four characters of the
\* pub_id read as a number when that number is in 2000..2100; on the
\* structured and on the alternate path.
C33_YearFromDateElseNumber ==
    out.op = "dates" =>
        IF ~IsNull(out.patent.PubDate) THEN out.patent.Year = out.patent.PubDate[1]
        ELSE Number4(inp.number, 1) \in 2000..2100 =>
                out.patent.Year = Number4(inp.number, 1)

-----------------------------------------------------------------------------
(* Claims about the dispatch of the worker *)

\* worker w takes a path from workChan in this step
Takes(w) == wk[w].pc = "recv" /\ wk'[w].pc \in {"mark", "send"}

\* C34: every path that discovery lists as a candidate archive is given by
\* the worker to the ZIP or to the TAR extractor; none is refused as an
\* unknown archive type and then marked processed without extraction.
C34_CandidatesDispatched ==
    [][\A w \in Workers :
          Takes(w) => ArchiveKind(fs, wk'[w].path) \in {"zip", "tar"}]_vars

-----------------------------------------------------------------------------
(* Claims about the processed map and its file *)

\* C35: after any sequence of markProcessed calls by concurrent workers,
\* also ones in which opening or appending to the log fails, the paths of the
\* in-memory map are the non-blank lines of the log, and lines of the log are
\* never removed or changed.
C35_MapEqualsLog ==
    [][/\ processedArchives' = processedLog'
       /\ processedLog \subseteq processedLog']_vars

-----------------------------------------------------------------------------
(* The backfill of application numbers: Run, loadMissingPatents, worker, *)
(* inserter, updatePatents and the signal handler                        *)

\* rows the query of loadMissingPatents returns
MaxRows == 7
\* whether processPatentBatch finds the application number of each row: of
\* the first k rows it does, of the others it does not
FixRows ==
    { [i \in 1..n |-> i <= k] : n \in 1..MaxRows, k \in 0..MaxRows }
PatentsToFix(found) == [i \in DOMAIN found |-> [PubNumber |-> i, found |-> found[i]]]
BackfillConfigs == { [Workers |-> n, BatchSize |-> b] : n \in 1..NumWorkers, b \in 1..2 }
BackfillStats == [PatentsProcessed |-> 0, PatentsUpdated |-> 0, Errors |-> 0]
FixIdle(pc) == [pc |-> pc, batch |-> << >>, results |-> << >>]

\* processPatentBatch: one PatentUpdate for every patent whose application
\* number was found
processPatentBatch(batch) ==
    LET RECURSIVE Found(_)
        Found(i) == IF i > Len(batch) THEN << >>
                    ELSE (IF batch[i].found
                          THEN << [PubNumber |-> batch[i].PubNumber,
                                   ApplicationNumber |-> Str(Digit, 8)] >>
                          ELSE << >>) \o Found(i + 1)
    IN  Found(1)

\* UPDATE patent_data_unified SET application_number = $1 WHERE pub_number = $2,
\* for every item, in one transaction
Updated(tbl, items) ==
    { IF \E i \in DOMAIN items : items[i].PubNumber = r.pub_number
      THEN [r EXCEPT !.application_number =
                 items[CHOOSE i \in DOMAIN items :
                          /\ items[i].PubNumber = r.pub_number
                          /\ \A j \in DOMAIN items :
                                items[j].PubNumber = r.pub_number => j <= i].ApplicationNumber]
      ELSE r : r \in tbl }

\* the inserter's loop body over one slice of results: every item is
\* appended to the local batch, which is flushed when it has BatchSize items;
\* acc.batch is the local batch, acc.calls the batches given to updatePatents
RECURSIVE Gather(_, _, _)
Gather(results, acc, size) ==
    IF results = << >> THEN acc
    ELSE LET batch == Append(acc.batch, Head(results))
         IN  IF Len(batch) >= size
             THEN Gather(Tail(results), [batch |-> << >>, calls |-> Append(acc.calls, batch)], size)
             ELSE Gather(Tail(results), [batch |-> batch, calls |-> acc.calls], size)

\* updatePatents for each of the calls in turn: a transaction that commits,
\* or one that fails at Begin, Prepare or Commit and counts an error
RECURSIVE Applied(_, _)
Applied(tbl, calls) ==
    IF calls = << >> THEN tbl ELSE Applied(Updated(tbl, Head(calls)), Tail(calls))

BackfillInit ==
    /\ cfg \in BackfillConfigs
    /\ \E found \in FixRows :
          /\ archives = PatentsToFix(found)
          /\ store = { [pub_number |-> i, application_number |-> << >>] : i \in DOMAIN found }
    /\ grants = {} /\ everForced = FALSE
    /\ firstSeen = [p \in PubIds |-> [c \in NonKeyCols |-> NULL]]
    /\ firstGrant = [g \in GrantIds |-> NULL]
    /\ grantTitle = [g \in GrantIds |-> NULL]
    /\ tx = [batch |-> << >>]
    /\ fs = {} /\ now = 1 /\ processedLog = {} /\ processedArchives = {}
    /\ sent = 0 /\ workChan = << >> /\ workClosed = FALSE
    /\ resultChan = << >> /\ resultClosed = FALSE /\ insDone = FALSE
    /\ wk = [w \in Workers |-> FixIdle(IF w <= cfg.Workers THEN "recv" ELSE "exit")]
    /\ phase = "running"
    /\ stats = BackfillStats
    /\ run = 1 /\ faults = 0
    /\ hist = [signalled |-> FALSE, sent |-> << >>, calls |-> << >>]
    /\ NoParse

\* loadMissingPatents: the next BatchSize rows, or the rows that remain, are
\* put on workChan
FixLoad ==
    /\ phase \in {"running", "shutdown"}
    /\ sent < Len(archives)
    /\ Len(workChan) < ChanCap
    /\ LET n == Min(cfg.BatchSize, Len(archives) - sent)
       IN  /\ workChan' = Append(workChan, SubSeq(archives, sent + 1, sent + n))
           /\ sent' = sent + n
    /\ UNCHANGED <<cfg, sinkVars, parseVars, fs, now, processedLog, processedArchives,
                   archives, workClosed, resultChan, resultClosed, wk, insDone, phase,
                   stats, run, faults, hist>>

\* loadMissingPatents: close(e.workChan)
FixCloseWork ==
    /\ phase \in {"running", "shutdown"}
    /\ sent = Len(archives) /\ ~workClosed
    /\ workClosed' = TRUE
    /\ UNCHANGED <<cfg, sinkVars, parseVars, fs, now, processedLog, processedArchives,
                   archives, sent, workChan, resultChan, resultClosed, wk, insDone, phase,
                   stats, run, faults, hist>>

\* the signal handler: close(e.shutdown)
FixSignal ==
    /\ phase = "running"
    /\ phase' = "shutdown"
    /\ hist' = [hist EXCEPT !.signalled = TRUE]
    /\ UNCHANGED <<cfg, sinkVars, parseVars, fs, now, processedLog, processedArchives,
                   archives, sent, workChan, workClosed, resultChan, resultClosed, wk,
                   insDone, stats, run, faults>>

\* worker: a batch is received; when shutdown is closed the worker returns,
\* otherwise it calls processPatentBatch
FixRecv(w) ==
    /\ wk[w].pc = "recv" /\ workChan # << >>
    /\ workChan' = Tail(workChan)
    /\ IF phase = "shutdown"
       THEN /\ wk' = [wk EXCEPT ![w] = FixIdle("exit")]
            /\ UNCHANGED stats
       ELSE LET results == processPatentBatch(Head(workChan))
            IN  /\ wk' = [wk EXCEPT ![w] = [pc |-> IF Len(results) > 0 THEN "send" ELSE "recv",
                                            batch |-> Head(workChan), results |-> results]]
                /\ stats' = [stats EXCEPT !.PatentsProcessed = @ + Len(Head(workChan))]
    /\ UNCHANGED <<cfg, sinkVars, parseVars, fs, now, processedLog, processedArchives,
                   archives, sent, workClosed, resultChan, resultClosed, insDone, phase,
                   run, faults, hist>>

\* worker: e.resultChan <- results
FixSend(w) ==
    /\ wk[w].pc = "send"
    /\ Len(resultChan) < ChanCap
    /\ resultChan' = Append(resultChan, wk[w].results)
    /\ hist' = [hist EXCEPT !.sent = @ \o wk[w].results]
    /\ wk' = [wk EXCEPT ![w] = FixIdle("recv")]
    /\ UNCHANGED <<cfg, sinkVars, parseVars, fs, now, processedLog, processedArchives,
                   archives, sent, workChan, workClosed, resultClosed, insDone, phase,
                   stats, run, faults>>

\* worker: the range over workChan ends
FixExit(w) ==
    /\ wk[w].pc = "recv" /\ workChan = << >> /\ workClosed
    /\ wk' = [wk EXCEPT ![w] = FixIdle("exit")]
    /\ UNCHANGED <<cfg, sinkVars, parseVars, fs, now, processedLog, processedArchives,
                   archives, sent, workChan, workClosed, resultChan, resultClosed, insDone,
                   phase, stats, run, faults, hist>>

\* Run: e.wg.Wait() has returned, close(e.resultChan)
FixCloseResults ==
    /\ phase \in {"running", "shutdown"}
    /\ workClosed /\ ~resultClosed
    /\ \A w \in Workers : wk[w].pc = "exit"
    /\ resultClosed' = TRUE
    /\ UNCHANGED <<cfg, sinkVars, parseVars, fs, now, processedLog, processedArchives,
                   archives, sent, workChan, workClosed, resultChan, wk, insDone, phase,
                   stats, run, faults, hist>>

\* the calls of updatePatents the inserter makes in one step: each commits,
\* or the one that meets a failure of the database counts an error
FixFlush(calls) ==
    \/ /\ store' = Applied(store, calls)
       /\ stats' = [stats EXCEPT !.PatentsUpdated =
                        @ + Cardinality({ r \in store : \E k \in DOMAIN calls :
                                            \E i \in DOMAIN calls[k] :
                                               calls[k][i].PubNumber = r.pub_number })]
       /\ UNCHANGED faults
    \/ /\ calls # << >> /\ faults < MaxFaults
       /\ faults' = faults + 1
       /\ store' = Applied(store, Tail(calls))
       /\ stats' = [stats EXCEPT !.Errors = @ + 1,
                                 !.PatentsUpdated =
                        @ + Cardinality({ r \in store : \E k \in DOMAIN Tail(calls) :
                                            \E i \in DOMAIN Tail(calls)[k] :
                                               Tail(calls)[k][i].PubNumber = r.pub_number })]

\* inserter: one slice of results is received and gathered into the batch
FixInsert ==
    /\ ~insDone /\ resultChan # << >>
    /\ resultChan' = Tail(resultChan)
    /\ LET acc == Gather(Head(resultChan), [batch |-> tx.batch, calls |-> << >>], cfg.BatchSize)
       IN  /\ tx' = [batch |-> acc.batch]
           /\ hist' = [hist EXCEPT !.calls = @ \o acc.calls]
           /\ FixFlush(acc.calls)
    /\ UNCHANGED <<cfg, grants, firstSeen, firstGrant, grantTitle, everForced, parseVars, fs,
                   now, processedLog, processedArchives, archives, sent, workChan,
                   workClosed, resultClosed, wk, insDone, phase, run>>

\* inserter: resultChan is closed and empty, the last batch is flushed
FixInsertEnd ==
    /\ ~insDone /\ resultChan = << >> /\ resultClosed
    /\ insDone' = TRUE
    /\ LET calls == IF tx.batch = << >> THEN << >> ELSE << tx.batch >>
       IN  /\ tx' = [batch |-> << >>]
           /\ hist' = [hist EXCEPT !.calls = @ \o calls]
           /\ FixFlush(calls)
    /\ UNCHANGED <<cfg, grants, firstSeen, firstGrant, grantTitle, everForced, parseVars, fs,
                   now, processedLog, processedArchives, archives, sent, workChan,
                   workClosed, resultChan, resultClosed, wk, phase, run>>

\* Run: e.insWG.Wait() has returned, the totals are printed
FixFinish ==
    /\ phase \in {"running", "shutdown"}
    /\ insDone
    /\ phase' = "done"
    /\ UNCHANGED <<cfg, sinkVars, parseVars, fs, now, processedLog, processedArchives,
                   archives, sent, workChan, workClosed, resultChan, resultClosed, wk,
                   insDone, stats, run, faults, hist>>

FixLoader == FixLoad \/ FixCloseWork
FixWorker(w) == FixRecv(w) \/ FixSend(w) \/ FixExit(w)
FixInserter == FixInsert \/ FixInsertEnd
FixRun == FixCloseResults \/ FixFinish

BackfillNext ==
    \/ FixLoader
    \/ FixSignal
    \/ \E w \in Workers : FixWorker(w)
    \/ FixInserter
    \/ FixRun

\* the Go scheduler runs every goroutine that can take a step; the signal
\* may never come
BackfillScheduled ==
    /\ WF_vars(FixLoader)
    /\ \A w \in Workers : WF_vars(FixWorker(w))
    /\ WF_vars(FixInserter)
    /\ WF_vars(FixRun)

SpecBackfill == BackfillInit /\ [][BackfillNext]_vars /\ BackfillScheduled

-----------------------------------------------------------------------------
(* Claims about the backfill's Run *)

RECURSIVE Flat(_)
Flat(calls) == IF calls = << >> THEN << >> ELSE Head(calls) \o Flat(Tail(calls))
PubNumbers(items) == { items[i].PubNumber : i \in DOMAIN items }
\* what the workers have sent and no call of updatePatents has received yet
Unapplied == PubNumbers(hist.sent) \ PubNumbers(Flat(hist.calls))
\* no update is given to updatePatents twice, none that was never sent, and
\* no call receives more than BatchSize items
CallsSound ==
    /\ \A k \in DOMAIN hist.calls : Len(hist.calls[k]) \in 1..cfg.BatchSize
    /\ Cardinality(PubNumbers(Flat(hist.calls))) = Len(Flat(hist.calls))
    /\ PubNumbers(Flat(hist.calls)) \subseteq PubNumbers(hist.sent)
    /\ phase = "done" => Unapplied = {}

\* C39: when the shutdown signal arrives while the backfill runs, Run
\* eventually returns: the loader ends, every worker exits, resultChan is
\* closed and the inserter flushes its last batch
C39_ShutdownReturns == (phase = "shutdown") ~> (phase = "done")

\* C38: every PatentUpdate a worker sends on resultChan is passed to
\* updatePatents in exactly one call, none is lost and none applied twice,
\* and no call of updatePatents receives more than BatchSize items
C38_UpdatesAppliedOnce == [](CallsSound) /\ ((Unapplied # {}) ~> (Unapplied = {}))

=============================================================================
